---------------------------- MODULE Spec2Model ----------------------------
(***************************************************************************)
(* Model of the spatial assignment engine of shp-processor                 *)
(* (src/core/spatial_analyzer.py) and of the result table the analysis     *)
(* dialog builds from it (src/gui/spatial_analysis_dialog.py).             *)
(*                                                                         *)
(* Geometry.  The shapely predicates the analyzer calls are evaluated on   *)
(* one family of geometries, on which they reduce to interval arithmetic:  *)
(*   - a zone part with interval <<a, b>>, a < b, is the rectangle         *)
(*     [a,b] x [0,1];  a MultiPolygon zone has two disjoint parts;         *)
(*   - a point <<x, x>> is the point (x, 1/2);                             *)
(*   - a line <<a, b>>, a <= b, is the segment (a,1/2)-(b,1/2)             *)
(*     (a = b is a zero-length line);                                      *)
(*   - a polygon target <<a, b>>, a < b, is the rectangle [a,b] x [0,1].   *)
(* So length and area are both the width b - a, a bounding box is the      *)
(* x-range, and a ratio is an exact fraction <<numerator, denominator>>.   *)
(***************************************************************************)
EXTENDS Integers, Sequences, FiniteSets, TLC

VARIABLES
    polygons_gdf,       \* SpatialAnalyzer.polygons_gdf : None or the zone rows
    target_gdf,         \* SpatialAnalyzer.target_gdf   : None or the target rows
    spatial_index,      \* SpatialAnalyzer.spatial_index: None or the entries, in the tree's iteration order
    ret,                \* the value returned by the last SpatialAnalyzer call (an export
                        \* returns the table it wrote as well)
    analysis_results,   \* SpatialAnalysisDialog.analysis_results
    processed_results,  \* SpatialAnalysisDialog.processed_results
    disk,               \* the files the loaders can be pointed at (never written)
    input,              \* what the caller of the CoordinateParser holds: the arguments of its calls
    call,               \* the last CoordinateParser call
    caller_coords,      \* the list the caller passed for 'coords', as it is after the call
    out,                \* what that call returned or raised
    stdout              \* the failure count that call printed (0: no warning)

analyzer_vars == <<polygons_gdf, target_gdf, spatial_index, ret, analysis_results,
                   processed_results, disk>>

parser_vars == <<input, call, caller_coords, out, stdout>>

vars == <<polygons_gdf, target_gdf, spatial_index, ret, analysis_results,
          processed_results, disk, input, call, caller_coords, out, stdout>>

\* A frame that was never loaded.  Neither loader ever stores an empty frame,
\* so the empty sequence is free to stand for Python's None.
None == << >>

\* ------------------------------------------------------------------------
\* Bounds of the model
\* ------------------------------------------------------------------------
MaxZones == 2      \* rows of a zone file
MaxTargets == 2    \* rows of a target file

\* x-coordinates of the vertices: widths 1, 3, 4 and 5, so that 80% / 20%
\* splits, exact ties and single-point contacts all occur.
Coords == {0, 1, 4, 5}

\* ------------------------------------------------------------------------
\* Helpers
\* ------------------------------------------------------------------------
Min2(a, b) == IF a <= b THEN a ELSE b
Max2(a, b) == IF a >= b THEN a ELSE b

RECURSIVE SeqSum(_)
SeqSum(s) == IF s = << >> THEN 0 ELSE Head(s) + SeqSum(Tail(s))

RECURSIVE Gcd(_, _)
Gcd(a, b) == IF b = 0 THEN a ELSE Gcd(b, a % b)

\* Fractions <<n, d>>, d > 0, kept in lowest terms: the value of a float that
\* is a quotient of two small integers.
Frac(n, d) == LET g == Gcd(n, d) IN <<n \div g, d \div g>>
Zero == <<0, 1>>
One == <<1, 1>>
FGt(p, q) == p[1] * q[2] > q[1] * p[2]
FLe(p, q) == ~FGt(p, q)
FAdd(p, q) == Frac(p[1] * q[2] + q[1] * p[2], p[2] * q[2])
FMulInt(p, k) == Frac(p[1] * k, p[2])
FDivInt(p, k) == Frac(p[1], p[2] * k)

\* The elements of a finite set of integers in ascending order: the order in
\* which CPython iterates a set of small non-negative ints.
RECURSIVE SortedSeq(_)
SortedSeq(S) ==
    IF S = {} THEN << >>
    ELSE LET m == CHOOSE x \in S : \A y \in S : x <= y
         IN <<m>> \o SortedSeq(S \ {m})

Range(s) == {s[i] : i \in DOMAIN s}

\* All orderings of a sequence.
Orderings(s) ==
    LET n == Len(s)
        perms == {p \in [1..n -> 1..n] : \A i, j \in 1..n : p[i] = p[j] => i = j}
    IN {[i \in 1..n |-> s[p[i]]] : p \in perms}

\* ------------------------------------------------------------------------
\* shapely on the modelled family of geometries
\* ------------------------------------------------------------------------
\* geometry.bounds
Bounds(geoms) ==
    <<CHOOSE lo \in {g[1] : g \in Range(geoms)} : \A g \in Range(geoms) : lo <= g[1],
      CHOOSE hi \in {g[2] : g \in Range(geoms)} : \A g \in Range(geoms) : hi >= g[2]>>

\* part.length, part.area
Measure(part) == part[2] - part[1]

\* zone.contains(point): the point is interior to the zone
ContainsPoint(zgeoms, pt) == \E z \in Range(zgeoms) : z[1] < pt[1] /\ pt[1] < z[2]

\* zone.touches(point): the point is on the zone's boundary
TouchesPoint(zgeoms, pt) ==
    /\ ~ContainsPoint(zgeoms, pt)
    /\ \E z \in Range(zgeoms) : pt[1] = z[1] \/ pt[1] = z[2]

\* part.intersection(zone): is_empty, and its length (for a line) or area
\* (for a polygon)
IntersectionIsEmpty(part, zgeoms) ==
    ~\E z \in Range(zgeoms) : Max2(part[1], z[1]) <= Min2(part[2], z[2])

RECURSIVE IntersectionMeasure(_, _)
IntersectionMeasure(part, zgeoms) ==
    IF zgeoms = << >> THEN 0
    ELSE LET z == Head(zgeoms)
             w == Min2(part[2], z[2]) - Max2(part[1], z[1])
         IN Max2(w, 0) + IntersectionMeasure(part, Tail(zgeoms))

\* zone.contains(line): no point of the line outside the zone and the line's
\* interior meets the zone's interior (a zero-length line behaves as its point)
ContainsLine(zgeoms, line) ==
    IF line[1] = line[2] THEN ContainsPoint(zgeoms, line)
    ELSE \E z \in Range(zgeoms) : z[1] <= line[1] /\ line[2] <= z[2]

\* rtree's test of two boxes: closed boxes that share a point intersect
BoxesIntersect(b1, b2) == b1[1] <= b2[2] /\ b2[1] <= b1[2]

\* ------------------------------------------------------------------------
\* Files the loaders can be pointed at
\* ------------------------------------------------------------------------
Intervals == {iv \in Coords \X Coords : iv[1] < iv[2]}
\* zero-length lines
DegenerateParts == {<<x, x>> : x \in Coords}
LineParts == Intervals \cup DegenerateParts
\* points: at the vertices and at 2, which lies in the gap between the two
\* parts of the MultiPolygon zone
PointParts == DegenerateParts \cup {<<2, 2>>}

PolygonTypes == {"Polygon", "MultiPolygon"}
PointTypes == {"Point", "MultiPoint"}
LineTypes == {"LineString", "MultiLineString"}


\* A zone file row: its geometry, the value of its attribute column "fid",
\* and whether the geometry is malformed (shapely raises when a predicate or
\* an overlay is evaluated on it).
ZoneRow(t, g, f, m) == [geom_type |-> t, geoms |-> g, fid |-> f, malformed |-> m]

\* A target file row.
TargetRow(t, g, f) == [geom_type |-> t, geoms |-> g, fid |-> f]

\* A file: read_file raises on an unreadable one.
File(rows) == [readable |-> TRUE, rows |-> rows]
Unreadable == [readable |-> FALSE, rows |-> << >>]

\* id_field arguments: no field, the attribute column, a column the file lacks
NoField == "None"
IdFields == {NoField, "fid"}
Columns == {"fid", "geometry"}

ZoneGeoms ==
    {<<iv>> : iv \in Intervals}
        \cup {pr \in Intervals \X Intervals : pr[1][2] < pr[2][1]}

GeomTypeOfZone(g) == IF Len(g) = 1 THEN "Polygon" ELSE "MultiPolygon"

SeqsUpTo(S, n) == UNION {[1..k -> S] : k \in 1..n}

\* ------------------------------------------------------------------------
\* SpatialAnalyzer: loading
\* ------------------------------------------------------------------------
\* as SpatialIndexEntries, with the bounding box of the first part only
SpatialIndexEntriesFirstPart(gdf) ==
    [i \in 1..Len(gdf) |-> [id |-> i - 1, bounds |-> gdf[i].geoms[1]]]

\* _create_spatial_index: one entry per row of the frame, keyed by the row's
\* position (from 0) and holding the row's bounding box.  The result is the
\* set of sequences the tree may iterate its entries in.
SpatialIndexEntries(gdf) ==
    [i \in 1..Len(gdf) |-> [id |-> i - 1, bounds |-> Bounds(gdf[i].geoms)]]

CreateSpatialIndex(gdf) == Orderings(SpatialIndexEntries(gdf))

\* gdf[mask] for the rows of one of the given geometry types
FilterTypes(rows, types) == SelectSeq(rows, LAMBDA r : r.geom_type \in types)

\* the frame with its '_analysis_id' column set
WithAnalysisId(rows, id_field) ==
    [i \in 1..Len(rows) |->
        [geom_type |-> rows[i].geom_type, geoms |-> rows[i].geoms,
         fid |-> rows[i].fid, malformed |-> rows[i].malformed,
         analysis_id |-> IF id_field \in Columns THEN rows[i].fid ELSE i - 1]]

\* the frame with its '_target_id' column set
WithTargetId(rows, id_field) ==
    [i \in 1..Len(rows) |->
        [geom_type |-> rows[i].geom_type, geoms |-> rows[i].geoms,
         fid |-> rows[i].fid,
         target_id |-> IF id_field \in Columns THEN rows[i].fid ELSE i - 1]]

Failure(op, error) == [op |-> op, success |-> FALSE, error |-> error]

\* The installed shapely is not fixed by the repository: the releases the
\* loaders and the parser may run on.
Builds == {"shapely1", "shapely2"}

\* the bounds of an empty geometry under shapely 2.x: NaNs, with which every
\* comparison is false, so that the box meets no query box
NaNBounds == <<6, -1>>

load_polygons_layer(file, id_field) ==
    IF ~file.readable THEN
        /\ ret' = Failure("load_polygons_layer", "exception")
        /\ UNCHANGED <<polygons_gdf, spatial_index>>
    ELSE IF FilterTypes(file.rows, PolygonTypes) = << >> THEN
        /\ ret' = Failure("load_polygons_layer", "no polygon geometry")
        /\ UNCHANGED <<polygons_gdf, spatial_index>>
    ELSE IF \E i \in DOMAIN file.rows :
                 file.rows[i].geom_type \in PolygonTypes /\ file.rows[i].geoms = << >> THEN
        \* A row holds an empty polygon.  The frame is stored (line 60) before
        \* the index is built (line 75), and what insert does with the bounds of
        \* an empty geometry depends on the installed shapely: shapely 1.x gives
        \* (), which rtree refuses, so the load fails with the index filled up
        \* to that row; shapely 2.x gives NaNs, which rtree stores.
        LET gdf == WithAnalysisId(FilterTypes(file.rows, PolygonTypes), id_field)
            k == CHOOSE i \in DOMAIN gdf :
                     gdf[i].geoms = << >> /\ \A j \in 1..(i - 1) : gdf[j].geoms # << >>
        IN /\ polygons_gdf' = gdf
           /\ \E build \in Builds :
                 IF build = "shapely1"
                 THEN /\ spatial_index' \in CreateSpatialIndex(SubSeq(gdf, 1, k - 1))
                      /\ ret' = Failure("load_polygons_layer", "exception")
                 ELSE /\ spatial_index' \in Orderings(
                             [i \in 1..Len(gdf) |->
                                 [id |-> i - 1,
                                  bounds |-> IF gdf[i].geoms = << >> THEN NaNBounds
                                             ELSE Bounds(gdf[i].geoms)]])
                      /\ ret' = [op |-> "load_polygons_layer", success |-> TRUE,
                                 polygon_count |-> Len(gdf)]
    ELSE
        /\ polygons_gdf' = WithAnalysisId(FilterTypes(file.rows, PolygonTypes), id_field)
        /\ spatial_index' \in CreateSpatialIndex(polygons_gdf')
        /\ ret' = [op |-> "load_polygons_layer", success |-> TRUE,
                   polygon_count |-> Len(polygons_gdf')]

load_target_layer(file, id_field) ==
    IF ~file.readable THEN
        /\ ret' = Failure("load_target_layer", "exception")
        /\ UNCHANGED target_gdf
    ELSE IF file.rows = << >> THEN
        /\ ret' = Failure("load_target_layer", "empty file")
        /\ UNCHANGED target_gdf
    ELSE
        /\ target_gdf' = WithTargetId(file.rows, id_field)
        /\ ret' = [op |-> "load_target_layer", success |-> TRUE,
                   feature_count |-> Len(target_gdf')]

\* ------------------------------------------------------------------------
\* SpatialAnalyzer: the three analyses
\* ------------------------------------------------------------------------
iloc(gdf, idx) == gdf[idx + 1]

\* list(self.spatial_index.intersection(bounds)): the keys of the entries
\* whose box intersects the query box, in the tree's iteration order
possible_matches(sidx, bounds) ==
    LET hits == SelectSeq(sidx, LAMBDA e : BoxesIntersect(e.bounds, bounds))
    IN [i \in 1..Len(hits) |-> hits[i].id]

\* A geometric evaluation raises: some part of some row has a malformed zone
\* among its candidates (every candidate of every part is evaluated).
EvaluationRaises(zones, sidx, rows) ==
    \E r \in Range(rows) : \E part \in Range(r.geoms) :
        \E idx \in Range(possible_matches(sidx, part)) : iloc(zones, idx).malformed

HasKey(statistics, polygon_id) == \E i \in DOMAIN statistics : statistics[i].polygon_id = polygon_id
KeyPos(statistics, polygon_id) == CHOOSE i \in DOMAIN statistics : statistics[i].polygon_id = polygon_id
Keys(statistics) == {statistics[i].polygon_id : i \in DOMAIN statistics}

\* set(self.polygons_gdf['_analysis_id'])
AllPolygonIds(zones) == {zones[i].analysis_id : i \in DOMAIN zones}

\* --- points -------------------------------------------------------------
\* as AssignedPolygons, without the touches test
AssignedPolygonsContainsOnly(zones, sidx, geoms) ==
    {iloc(zones, idx).analysis_id :
        idx \in UNION {{j \in Range(possible_matches(sidx, pt)) :
                           ContainsPoint(iloc(zones, j).geoms, pt)} :
                       pt \in Range(geoms)}}

\* the set assigned_polygons built for one point row
AssignedPolygons(zones, sidx, geoms) ==
    {iloc(zones, idx).analysis_id :
        idx \in UNION {{j \in Range(possible_matches(sidx, pt)) :
                           \/ ContainsPoint(iloc(zones, j).geoms, pt)
                           \/ TouchesPoint(iloc(zones, j).geoms, pt)} :
                       pt \in Range(geoms)}}

\* as AssignedPolygonList, but the matches of the sub-points are collected in
\* a list, not in a set
RECURSIVE AssignedPolygonListPerPoint(_, _, _)
AssignedPolygonListPerPoint(zones, sidx, geoms) ==
    IF geoms = << >> THEN << >>
    ELSE SortedSeq(AssignedPolygons(zones, sidx, <<Head(geoms)>>))
             \o AssignedPolygonListPerPoint(zones, sidx, Tail(geoms))

\* the iteration "for polygon_id in assigned_polygons"
AssignedPolygonList(zones, sidx, geoms) == SortedSeq(AssignedPolygons(zones, sidx, geoms))

\* the body of "for polygon_id in assigned_polygons"
RECURSIVE TallyPoint(_, _, _)
TallyPoint(statistics, ids, point_id) ==
    IF ids = << >> THEN statistics
    ELSE LET polygon_id == Head(ids)
             st == IF HasKey(statistics, polygon_id) THEN statistics
                   ELSE Append(statistics, [polygon_id |-> polygon_id,
                                            point_count |-> 0, point_ids |-> << >>])
             k == KeyPos(st, polygon_id)
             st2 == [st EXCEPT ![k].point_count = @ + 1,
                               ![k].point_ids = Append(@, point_id)]
         IN TallyPoint(st2, Tail(ids), point_id)

\* as PointsLoop, but a point without a zone is not noted as unassigned
RECURSIVE PointsLoopDropsUnassigned(_, _, _, _, _)
PointsLoopDropsUnassigned(zones, sidx, rows, statistics, unassigned) ==
    IF rows = << >> THEN [statistics |-> statistics, unassigned |-> unassigned]
    ELSE LET row == Head(rows)
             assigned_polygons == AssignedPolygons(zones, sidx, row.geoms)
         IN IF assigned_polygons # {}
            THEN PointsLoopDropsUnassigned(zones, sidx, Tail(rows),
                            TallyPoint(statistics, AssignedPolygonList(zones, sidx, row.geoms),
                                       row.target_id),
                            unassigned)
            ELSE PointsLoopDropsUnassigned(zones, sidx, Tail(rows), statistics, unassigned)

\* the loop over the point rows
RECURSIVE PointsLoop(_, _, _, _, _)
PointsLoop(zones, sidx, rows, statistics, unassigned) ==
    IF rows = << >> THEN [statistics |-> statistics, unassigned |-> unassigned]
    ELSE LET row == Head(rows)
             assigned_polygons == AssignedPolygons(zones, sidx, row.geoms)
         IN IF assigned_polygons # {}
            THEN PointsLoop(zones, sidx, Tail(rows),
                            TallyPoint(statistics, AssignedPolygonList(zones, sidx, row.geoms),
                                       row.target_id),
                            unassigned)
            ELSE PointsLoop(zones, sidx, Tail(rows), statistics,
                            Append(unassigned, row.target_id))

\* the rows appended for the zones that received nothing
EmptyPointRows(ids) ==
    [i \in 1..Len(ids) |-> [polygon_id |-> ids[i], point_count |-> 0, point_ids |-> << >>]]

analyze_points_in_polygons(zones, targets, sidx) ==
    IF zones = None \/ targets = None
    THEN Failure("analyze_points_in_polygons", "layers not loaded")
    ELSE LET points_gdf == FilterTypes(targets, PointTypes) IN
         IF points_gdf = << >>
         THEN Failure("analyze_points_in_polygons", "no point features")
         ELSE IF EvaluationRaises(zones, sidx, points_gdf)
         THEN Failure("analyze_points_in_polygons", "exception")
         ELSE LET loop == PointsLoop(zones, sidx, points_gdf, << >>, << >>)
                  empty_polygon_ids == AllPolygonIds(zones) \ Keys(loop.statistics)
              IN [op |-> "analyze_points_in_polygons", success |-> TRUE,
                  total_points |-> Len(points_gdf),
                  assigned_points |-> Len(points_gdf) - Len(loop.unassigned),
                  unassigned_points |-> Len(loop.unassigned),
                  unassigned_point_ids |-> loop.unassigned,
                  statistics |-> loop.statistics \o EmptyPointRows(SortedSeq(empty_polygon_ids)),
                  total_polygons |-> Len(zones),
                  polygons_with_points |-> Len(loop.statistics)]

\* --- lines --------------------------------------------------------------
\* the ratio computed for one line and one candidate whose intersection with
\* the line is not empty
LineRatio(line, zgeoms) ==
    IF IntersectionMeasure(line, zgeoms) > 0
    THEN Frac(IntersectionMeasure(line, zgeoms), Measure(line))
    ELSE IF ContainsLine(zgeoms, line) THEN One ELSE Zero

\* best_match is None (the empty sequence) or <<polygon_id>>
NoBest == [best_match |-> None, best_ratio |-> Zero]

\* "for polygon_idx in possible_matches" of the line analysis
RECURSIVE LineCandidatesLoop(_, _, _, _)
LineCandidatesLoop(zones, cands, line, best) ==
    IF cands = << >> THEN best
    ELSE LET polygon_geom == iloc(zones, Head(cands)).geoms
             polygon_id == iloc(zones, Head(cands)).analysis_id
             ratio == LineRatio(line, polygon_geom)
         IN IF ~IntersectionIsEmpty(line, polygon_geom) /\ FGt(ratio, best.best_ratio)
            THEN LineCandidatesLoop(zones, Tail(cands), line,
                                    [best_match |-> <<polygon_id>>, best_ratio |-> ratio])
            ELSE LineCandidatesLoop(zones, Tail(cands), line, best)

\* as LinesOfTargetLoop, but best_match and best_ratio start afresh for every
\* sub-line
RECURSIVE LinesOfTargetLoopPerLine(_, _, _, _)
LinesOfTargetLoopPerLine(zones, sidx, lines, best) ==
    IF lines = << >> THEN best
    ELSE LinesOfTargetLoopPerLine(zones, sidx, Tail(lines),
            LineCandidatesLoop(zones, possible_matches(sidx, Head(lines)), Head(lines), NoBest))

\* "for line in lines"
RECURSIVE LinesOfTargetLoop(_, _, _, _)
LinesOfTargetLoop(zones, sidx, lines, best) ==
    IF lines = << >> THEN best
    ELSE LinesOfTargetLoop(zones, sidx, Tail(lines),
            LineCandidatesLoop(zones, possible_matches(sidx, Head(lines)), Head(lines), best))

\* best_match and best_ratio of one line row
BestLineMatch(zones, sidx, geoms) == LinesOfTargetLoop(zones, sidx, geoms, NoBest)

\* the length the statistics add for a row: 'line' is the variable the loop
\* over the sub-lines left behind, that is the row's last sub-line
TalliedLength(geoms) == Measure(geoms[Len(geoms)])

TallyLine(statistics, polygon_id, line_id, length, ratio) ==
    LET st == IF HasKey(statistics, polygon_id) THEN statistics
              ELSE Append(statistics, [polygon_id |-> polygon_id, line_count |-> 0,
                                       line_ids |-> << >>, total_length |-> 0,
                                       intersection_ratio_sum |-> Zero])
        k == KeyPos(st, polygon_id)
    IN [st EXCEPT ![k].line_count = @ + 1,
                  ![k].line_ids = Append(@, line_id),
                  ![k].total_length = @ + length,
                  ![k].intersection_ratio_sum = FAdd(@, ratio)]

\* as LinesLoop, but the row is appended to the unassigned list in both cases
RECURSIVE LinesLoopNoElse(_, _, _, _, _)
LinesLoopNoElse(zones, sidx, rows, statistics, unassigned) ==
    IF rows = << >> THEN [statistics |-> statistics, unassigned |-> unassigned]
    ELSE LET row == Head(rows)
             best == BestLineMatch(zones, sidx, row.geoms)
         IN IF best.best_match # None /\ FGt(best.best_ratio, Zero)
            THEN LinesLoopNoElse(zones, sidx, Tail(rows),
                                 TallyLine(statistics, best.best_match[1], row.target_id,
                                           TalliedLength(row.geoms), best.best_ratio),
                                 Append(unassigned, row.target_id))
            ELSE LinesLoopNoElse(zones, sidx, Tail(rows), statistics,
                                 Append(unassigned, row.target_id))

\* the loop over the line rows
RECURSIVE LinesLoop(_, _, _, _, _)
LinesLoop(zones, sidx, rows, statistics, unassigned) ==
    IF rows = << >> THEN [statistics |-> statistics, unassigned |-> unassigned]
    ELSE LET row == Head(rows)
             best == BestLineMatch(zones, sidx, row.geoms)
         IN IF best.best_match # None /\ FGt(best.best_ratio, Zero)
            THEN LinesLoop(zones, sidx, Tail(rows),
                           TallyLine(statistics, best.best_match[1], row.target_id,
                                     TalliedLength(row.geoms), best.best_ratio),
                           unassigned)
            ELSE LinesLoop(zones, sidx, Tail(rows), statistics,
                           Append(unassigned, row.target_id))

LineResultRows(statistics) ==
    [i \in 1..Len(statistics) |->
        [polygon_id |-> statistics[i].polygon_id,
         line_count |-> statistics[i].line_count,
         line_ids |-> statistics[i].line_ids,
         total_length |-> statistics[i].total_length,
         avg_intersection_ratio |->
             FDivInt(statistics[i].intersection_ratio_sum, statistics[i].line_count)]]

EmptyLineRows(ids) ==
    [i \in 1..Len(ids) |-> [polygon_id |-> ids[i], line_count |-> 0, line_ids |-> << >>,
                           total_length |-> 0, avg_intersection_ratio |-> Zero]]

analyze_lines_in_polygons(zones, targets, sidx) ==
    IF zones = None \/ targets = None
    THEN Failure("analyze_lines_in_polygons", "layers not loaded")
    ELSE LET lines_gdf == FilterTypes(targets, LineTypes) IN
         IF lines_gdf = << >>
         THEN Failure("analyze_lines_in_polygons", "no line features")
         ELSE IF EvaluationRaises(zones, sidx, lines_gdf)
         THEN Failure("analyze_lines_in_polygons", "exception")
         ELSE LET loop == LinesLoop(zones, sidx, lines_gdf, << >>, << >>)
                  empty_polygon_ids == AllPolygonIds(zones) \ Keys(loop.statistics)
              IN [op |-> "analyze_lines_in_polygons", success |-> TRUE,
                  total_lines |-> Len(lines_gdf),
                  assigned_lines |-> Len(lines_gdf) - Len(loop.unassigned),
                  unassigned_lines |-> Len(loop.unassigned),
                  unassigned_line_ids |-> loop.unassigned,
                  statistics |-> LineResultRows(loop.statistics)
                                     \o EmptyLineRows(SortedSeq(empty_polygon_ids)),
                  total_polygons |-> Len(zones),
                  polygons_with_lines |-> Len(loop.statistics)]

\* --- polygons -----------------------------------------------------------
\* intersection.area / target_poly.area
OverlapRatio(target_poly, zgeoms) ==
    Frac(IntersectionMeasure(target_poly, zgeoms), Measure(target_poly))

\* as PolygonCandidatesLoop, but a candidate wins whenever its ratio is
\* positive, not only when it exceeds the best so far
RECURSIVE PolygonCandidatesLoopLastWins(_, _, _, _)
PolygonCandidatesLoopLastWins(zones, cands, target_poly, best) ==
    IF cands = << >> THEN best
    ELSE LET polygon_geom == iloc(zones, Head(cands)).geoms
             polygon_id == iloc(zones, Head(cands)).analysis_id
         IN IF /\ ~IntersectionIsEmpty(target_poly, polygon_geom)
               /\ FGt(OverlapRatio(target_poly, polygon_geom), Zero)
            THEN PolygonCandidatesLoopLastWins(zones, Tail(cands), target_poly,
                    [best_match |-> <<polygon_id>>,
                     best_ratio |-> OverlapRatio(target_poly, polygon_geom)])
            ELSE PolygonCandidatesLoopLastWins(zones, Tail(cands), target_poly, best)

\* "for polygon_idx in possible_matches" of the polygon analysis
RECURSIVE PolygonCandidatesLoop(_, _, _, _)
PolygonCandidatesLoop(zones, cands, target_poly, best) ==
    IF cands = << >> THEN best
    ELSE LET polygon_geom == iloc(zones, Head(cands)).geoms
             polygon_id == iloc(zones, Head(cands)).analysis_id
         IN IF /\ ~IntersectionIsEmpty(target_poly, polygon_geom)
               /\ FGt(OverlapRatio(target_poly, polygon_geom), best.best_ratio)
            THEN PolygonCandidatesLoop(zones, Tail(cands), target_poly,
                    [best_match |-> <<polygon_id>>,
                     best_ratio |-> OverlapRatio(target_poly, polygon_geom)])
            ELSE PolygonCandidatesLoop(zones, Tail(cands), target_poly, best)

\* "for target_poly in target_polys"
RECURSIVE PolygonsOfTargetLoop(_, _, _, _)
PolygonsOfTargetLoop(zones, sidx, target_polys, best) ==
    IF target_polys = << >> THEN best
    ELSE PolygonsOfTargetLoop(zones, sidx, Tail(target_polys),
            PolygonCandidatesLoop(zones, possible_matches(sidx, Head(target_polys)),
                                  Head(target_polys), best))

\* best_match and best_overlap_ratio of one polygon row
BestPolygonMatch(zones, sidx, geoms) == PolygonsOfTargetLoop(zones, sidx, geoms, NoBest)

\* 'target_poly' after the loop over the sub-polygons: the row's last one
TalliedArea(geoms) == Measure(geoms[Len(geoms)])

TallyPolygon(statistics, polygon_id, target_id, area, ratio) ==
    LET st == IF HasKey(statistics, polygon_id) THEN statistics
              ELSE Append(statistics, [polygon_id |-> polygon_id,
                                       target_polygon_count |-> 0,
                                       target_polygon_ids |-> << >>,
                                       total_target_area |-> 0,
                                       total_overlap_area |-> Zero])
        k == KeyPos(st, polygon_id)
    IN [st EXCEPT ![k].target_polygon_count = @ + 1,
                  ![k].target_polygon_ids = Append(@, target_id),
                  ![k].total_target_area = @ + area,
                  ![k].total_overlap_area = FAdd(@, FMulInt(ratio, area))]

\* the loop over the polygon rows
RECURSIVE PolygonsLoop(_, _, _, _, _)
PolygonsLoop(zones, sidx, rows, statistics, unassigned) ==
    IF rows = << >> THEN [statistics |-> statistics, unassigned |-> unassigned]
    ELSE LET row == Head(rows)
             best == BestPolygonMatch(zones, sidx, row.geoms)
         IN IF best.best_match # None /\ FGt(best.best_ratio, Zero)
            THEN PolygonsLoop(zones, sidx, Tail(rows),
                              TallyPolygon(statistics, best.best_match[1], row.target_id,
                                           TalliedArea(row.geoms), best.best_ratio),
                              unassigned)
            ELSE PolygonsLoop(zones, sidx, Tail(rows), statistics,
                              Append(unassigned, row.target_id))

PolygonResultRows(statistics) ==
    [i \in 1..Len(statistics) |->
        [polygon_id |-> statistics[i].polygon_id,
         target_polygon_count |-> statistics[i].target_polygon_count,
         target_polygon_ids |-> statistics[i].target_polygon_ids,
         total_target_area |-> statistics[i].total_target_area,
         total_overlap_area |-> statistics[i].total_overlap_area,
         avg_overlap_ratio |->
             FDivInt(statistics[i].total_overlap_area, statistics[i].total_target_area)]]

EmptyPolygonRows(ids) ==
    [i \in 1..Len(ids) |-> [polygon_id |-> ids[i], target_polygon_count |-> 0,
                           target_polygon_ids |-> << >>, total_target_area |-> 0,
                           total_overlap_area |-> Zero, avg_overlap_ratio |-> Zero]]

\* A quotient of the polygon analysis is 0.0 / 0.0, which raises
\* ZeroDivisionError: intersection.area / target_poly.area (line 449, not
\* guarded) for a sub-polygon of zero area and a candidate whose intersection
\* with it is not empty, or total_overlap_area / total_target_area (line 478)
\* for a zone whose targets tallied a zero area.  Both need a sub-polygon of
\* zero area among the rows.
DivisionByZero(zones, sidx, rows) ==
    /\ \E i \in DOMAIN rows : \E j \in DOMAIN rows[i].geoms : Measure(rows[i].geoms[j]) = 0
    /\ \/ \E r \in Range(rows) : \E target_poly \in Range(r.geoms) :
             /\ Measure(target_poly) = 0
             /\ \E idx \in Range(possible_matches(sidx, target_poly)) :
                   ~IntersectionIsEmpty(target_poly, iloc(zones, idx).geoms)
       \/ \E st \in Range(PolygonsLoop(zones, sidx, rows, << >>, << >>).statistics) :
             st.total_target_area = 0

analyze_polygons_in_polygons(zones, targets, sidx) ==
    IF zones = None \/ targets = None
    THEN Failure("analyze_polygons_in_polygons", "layers not loaded")
    ELSE LET target_polygons_gdf == FilterTypes(targets, PolygonTypes) IN
         IF target_polygons_gdf = << >>
         THEN Failure("analyze_polygons_in_polygons", "no polygon features")
         ELSE IF \/ EvaluationRaises(zones, sidx, target_polygons_gdf)
                 \/ DivisionByZero(zones, sidx, target_polygons_gdf)
         THEN Failure("analyze_polygons_in_polygons", "exception")
         ELSE LET loop == PolygonsLoop(zones, sidx, target_polygons_gdf, << >>, << >>)
                  empty_polygon_ids == AllPolygonIds(zones) \ Keys(loop.statistics)
              IN [op |-> "analyze_polygons_in_polygons", success |-> TRUE,
                  total_target_polygons |-> Len(target_polygons_gdf),
                  assigned_polygons |-> Len(target_polygons_gdf) - Len(loop.unassigned),
                  unassigned_polygons |-> Len(loop.unassigned),
                  unassigned_polygon_ids |-> loop.unassigned,
                  statistics |-> PolygonResultRows(loop.statistics)
                                     \o EmptyPolygonRows(SortedSeq(empty_polygon_ids)),
                  total_polygons |-> Len(zones),
                  polygons_with_targets |-> Len(loop.statistics)]

\* --- the complete analysis ----------------------------------------------
HasType(targets, types) == \E r \in Range(targets) : r.geom_type \in types

\* as perform_spatial_analysis, but the prerequisite test asks for both layers
\* to be missing
perform_spatial_analysisBothMissing(zones, targets, sidx) ==
    IF zones = None /\ targets = None
    THEN Failure("perform_spatial_analysis", "layers not loaded")
    ELSE LET point_result == analyze_points_in_polygons(zones, targets, sidx)
             line_result == analyze_lines_in_polygons(zones, targets, sidx)
             polygon_result == analyze_polygons_in_polygons(zones, targets, sidx)
             kinds == {k \in {"points"} : HasType(targets, PointTypes) /\ point_result.success}
                      \cup {k \in {"lines"} : HasType(targets, LineTypes) /\ line_result.success}
                      \cup {k \in {"polygons"} : HasType(targets, PolygonTypes) /\ polygon_result.success}
             results == [k \in kinds |-> CASE k = "points" -> point_result
                                           [] k = "lines" -> line_result
                                           [] k = "polygons" -> polygon_result]
         IN IF kinds = {}
            THEN Failure("perform_spatial_analysis", "no geometry type analysed")
            ELSE [op |-> "perform_spatial_analysis", success |-> TRUE,
                  results |-> results, total_polygons |-> Len(zones),
                  total_features |-> Len(targets)]

\* as perform_spatial_analysis, without the test for an empty results map
perform_spatial_analysisNoEmptyTest(zones, targets, sidx) ==
    IF zones = None \/ targets = None
    THEN Failure("perform_spatial_analysis", "layers not loaded")
    ELSE LET point_result == analyze_points_in_polygons(zones, targets, sidx)
             line_result == analyze_lines_in_polygons(zones, targets, sidx)
             polygon_result == analyze_polygons_in_polygons(zones, targets, sidx)
             kinds == {k \in {"points"} : HasType(targets, PointTypes) /\ point_result.success}
                      \cup {k \in {"lines"} : HasType(targets, LineTypes) /\ line_result.success}
                      \cup {k \in {"polygons"} : HasType(targets, PolygonTypes) /\ polygon_result.success}
             results == [k \in kinds |-> CASE k = "points" -> point_result
                                           [] k = "lines" -> line_result
                                           [] k = "polygons" -> polygon_result]
         IN [op |-> "perform_spatial_analysis", success |-> TRUE,
             results |-> results, total_polygons |-> Len(zones),
             total_features |-> Len(targets)]

perform_spatial_analysis(zones, targets, sidx) ==
    IF zones = None \/ targets = None
    THEN Failure("perform_spatial_analysis", "layers not loaded")
    ELSE LET point_result == analyze_points_in_polygons(zones, targets, sidx)
             line_result == analyze_lines_in_polygons(zones, targets, sidx)
             polygon_result == analyze_polygons_in_polygons(zones, targets, sidx)
             kinds == {k \in {"points"} : HasType(targets, PointTypes) /\ point_result.success}
                      \cup {k \in {"lines"} : HasType(targets, LineTypes) /\ line_result.success}
                      \cup {k \in {"polygons"} : HasType(targets, PolygonTypes) /\ polygon_result.success}
             results == [k \in kinds |-> CASE k = "points" -> point_result
                                           [] k = "lines" -> line_result
                                           [] k = "polygons" -> polygon_result]
         IN IF kinds = {}
            THEN Failure("perform_spatial_analysis", "no geometry type analysed")
            ELSE [op |-> "perform_spatial_analysis", success |-> TRUE,
                  results |-> results, total_polygons |-> Len(zones),
                  total_features |-> Len(targets)]

\* --- export -------------------------------------------------------------
\* results.get('results', {})
AnalysisData(results) ==
    IF "results" \in DOMAIN results THEN results.results ELSE [k \in {} |-> 0]

\* dict(zip(stats['polygon_id'], stats[column])): the last row of an id wins
CountOf(statistics, column, polygon_id) ==
    LET rows == {i \in DOMAIN statistics : statistics[i].polygon_id = polygon_id}
    IN statistics[CHOOSE i \in rows : \A j \in rows : j <= i][column]

\* result_gdf['_analysis_id'].map(dict).fillna(0), for one row of the frame
MappedCount(data, kind, column, polygon_id) ==
    IF kind \notin DOMAIN data THEN 0
    ELSE IF polygon_id \in Keys(data[kind].statistics)
         THEN CountOf(data[kind].statistics, column, polygon_id)
         ELSE 0

\* as ResultGdf, but total_count leaves out polygon_count
ResultGdfNoPolygons(zones, results) ==
    LET data == AnalysisData(results) IN
    [i \in 1..Len(zones) |->
        LET id == zones[i].analysis_id
            pc == MappedCount(data, "points", "point_count", id)
            lc == MappedCount(data, "lines", "line_count", id)
            gc == MappedCount(data, "polygons", "target_polygon_count", id)
        IN [analysis_id |-> id, geoms |-> zones[i].geoms,
            point_count |-> pc, line_count |-> lc, polygon_count |-> gc,
            total_count |-> pc + lc]]

\* the frame export_results_to_shapefile hands to to_file
ResultGdf(zones, results) ==
    LET data == AnalysisData(results) IN
    [i \in 1..Len(zones) |->
        LET id == zones[i].analysis_id
            pc == MappedCount(data, "points", "point_count", id)
            lc == MappedCount(data, "lines", "line_count", id)
            gc == MappedCount(data, "polygons", "target_polygon_count", id)
        IN [analysis_id |-> id, geoms |-> zones[i].geoms,
            point_count |-> pc, line_count |-> lc, polygon_count |-> gc,
            total_count |-> pc + lc + gc]]

export_results_to_shapefile(zones, results, writable) ==
    IF ~results.success
    THEN Failure("export_results_to_shapefile", "invalid analysis result")
    ELSE IF zones = None \/ ~writable
    THEN Failure("export_results_to_shapefile", "exception")
    ELSE [op |-> "export_results_to_shapefile", success |-> TRUE,
          exported_features |-> Len(zones), table |-> ResultGdf(zones, results)]

\* --- SpatialAnalysisDialog ----------------------------------------------
\* process_results: the combined table, one entry per polygon id found in
\* any statistics table, in the order the ids are first met
CombinedIds(results_data) ==
    UNION {Keys(results_data[k].statistics) : k \in DOMAIN results_data}

process_results(results) ==
    LET results_data == results.results
        ids == SortedSeq(CombinedIds(results_data))
    IN [i \in 1..Len(ids) |->
           LET pc == MappedCount(results_data, "points", "point_count", ids[i])
               lc == MappedCount(results_data, "lines", "line_count", ids[i])
               gc == MappedCount(results_data, "polygons", "target_polygon_count", ids[i])
           IN [polygon_id |-> ids[i], point_count |-> pc, line_count |-> lc,
               polygon_count |-> gc, total_count |-> pc + lc + gc]]

\* ------------------------------------------------------------------------
\* The state machine
\* ------------------------------------------------------------------------
\* no CoordinateParser call was made yet
NotCalled ==
    /\ call = [op |-> "None"]
    /\ caller_coords = << >>
    /\ out = [ok |-> FALSE, error |-> "None", msg |-> "None"]
    /\ stdout = 0

ParserIdle ==
    /\ input = [kind |-> "None"]
    /\ NotCalled

NoResults == [op |-> "None", success |-> FALSE, error |-> "None"]

\* A new analyzer and a new dialog, beside a disk that holds one zone file and
\* one target file.
InitWith(zone_files, target_files) ==
    /\ polygons_gdf = None
    /\ target_gdf = None
    /\ spatial_index = None
    /\ ret = NoResults
    /\ analysis_results = NoResults
    /\ processed_results = << >>
    /\ disk \in [zones : {{f} : f \in zone_files}, targets : {{f} : f \in target_files}]
    /\ ParserIdle

LoadPolygonsLayer(fields) ==
    /\ \E file \in disk.zones, id_field \in fields : load_polygons_layer(file, id_field)
    /\ UNCHANGED <<target_gdf, analysis_results, processed_results, disk>>
    /\ UNCHANGED parser_vars

LoadTargetLayer(fields) ==
    /\ \E file \in disk.targets, id_field \in fields : load_target_layer(file, id_field)
    /\ UNCHANGED <<polygons_gdf, spatial_index, analysis_results, processed_results, disk>>
    /\ UNCHANGED parser_vars

\* as AnalyzePoints, but a second run in a row adds to the counts of the first
AnalyzePointsAccumulating ==
    /\ LET fresh == analyze_points_in_polygons(polygons_gdf, target_gdf, spatial_index)
       IN ret' = IF fresh.success /\ ret = fresh
                 THEN [fresh EXCEPT !.total_points = 2 * @, !.assigned_points = 2 * @]
                 ELSE fresh
    /\ UNCHANGED <<polygons_gdf, target_gdf, spatial_index, analysis_results,
                   processed_results, disk>>
    /\ UNCHANGED parser_vars

AnalyzePoints ==
    /\ ret' = analyze_points_in_polygons(polygons_gdf, target_gdf, spatial_index)
    /\ UNCHANGED <<polygons_gdf, target_gdf, spatial_index, analysis_results,
                   processed_results, disk>>
    /\ UNCHANGED parser_vars

AnalyzeLines ==
    /\ ret' = analyze_lines_in_polygons(polygons_gdf, target_gdf, spatial_index)
    /\ UNCHANGED <<polygons_gdf, target_gdf, spatial_index, analysis_results,
                   processed_results, disk>>
    /\ UNCHANGED parser_vars

AnalyzePolygons ==
    /\ ret' = analyze_polygons_in_polygons(polygons_gdf, target_gdf, spatial_index)
    /\ UNCHANGED <<polygons_gdf, target_gdf, spatial_index, analysis_results,
                   processed_results, disk>>
    /\ UNCHANGED parser_vars

\* SpatialAnalysisDialog.perform_analysis: run the complete analysis, keep its
\* result and, when it succeeded, build the combined table
PerformAnalysis ==
    /\ ret' = perform_spatial_analysis(polygons_gdf, target_gdf, spatial_index)
    /\ analysis_results' = ret'
    /\ processed_results' = IF ret'.success THEN process_results(ret')
                            ELSE processed_results
    /\ UNCHANGED <<polygons_gdf, target_gdf, spatial_index, disk>>
    /\ UNCHANGED parser_vars

\* as ExportShapefile, but the count columns are added to the analyzer's own
\* frame instead of a copy of it
ExportShapefileInPlace ==
    /\ analysis_results.success
    /\ \E writable \in BOOLEAN :
          ret' = export_results_to_shapefile(polygons_gdf, analysis_results, writable)
    /\ polygons_gdf' =
          IF polygons_gdf = None THEN None
          ELSE [i \in DOMAIN polygons_gdf |->
                   polygons_gdf[i] @@ [total_count |->
                       ResultGdf(polygons_gdf, analysis_results)[i].total_count]]
    /\ UNCHANGED <<target_gdf, spatial_index, analysis_results, processed_results, disk>>
    /\ UNCHANGED parser_vars

\* SpatialAnalysisDialog.export_shapefile
ExportShapefile ==
    /\ analysis_results.success
    /\ \E writable \in BOOLEAN :
          ret' = export_results_to_shapefile(polygons_gdf, analysis_results, writable)
    /\ UNCHANGED <<polygons_gdf, target_gdf, spatial_index, analysis_results,
                   processed_results, disk>>
    /\ UNCHANGED parser_vars

\* SpatialAnalysisDialog.clear_results
ClearResults ==
    /\ analysis_results' = NoResults
    /\ processed_results' = << >>
    /\ UNCHANGED <<polygons_gdf, target_gdf, spatial_index, ret, disk>>
    /\ UNCHANGED parser_vars

\* --- the files of the analyses' specification -----------------------------
\* Zone rows: every zone geometry, well formed, and a malformed polygon whose
\* bounding box is MalformedBox.  The attribute column "fid" holds the x of
\* the zone's western edge, so two zones may carry the same value.
MalformedBox == <<1, 4>>

ZoneRows ==
    {ZoneRow(GeomTypeOfZone(g), g, g[1][1], FALSE) : g \in ZoneGeoms}
        \cup {ZoneRow("Polygon", <<MalformedBox>>, MalformedBox[1], TRUE)}

\* a ranking of the zone rows: a zone file lists distinct zones west to east
ZoneRank(r) ==
    (IF r.malformed THEN 1 ELSE 0) + 2 * Len(r.geoms)
        + 8 * r.geoms[1][2] + 64 * r.geoms[1][1]

\* Sequences of 1..n distinct members of S, in the order of ZoneRank
RankedSeqs(S, n) ==
    {q \in SeqsUpTo(S, n) : \A i, j \in DOMAIN q : i < j => ZoneRank(q[i]) < ZoneRank(q[j])}

ZoneFiles == {File(rows) : rows \in RankedSeqs(ZoneRows, MaxZones)} \cup {Unreadable}

\* Target rows with one part and with two
SingleTargets ==
    {TargetRow("Point", <<p>>, 0) : p \in PointParts}
        \cup {TargetRow("LineString", <<p>>, 0) : p \in LineParts}
        \cup {TargetRow("Polygon", <<p>>, 0) : p \in Intervals}

MultiTargets ==
    {TargetRow("MultiPoint", ps, 0) : ps \in PointParts \X PointParts}
        \cup {TargetRow("MultiLineString", ps, 0) : ps \in Intervals \X Intervals}
        \cup {TargetRow("MultiPolygon", ps, 0) : ps \in Intervals \X Intervals}

\* the rows of the files that hold several targets
BatchParts == {<<1, 1>>, <<0, 4>>, <<4, 5>>}
BatchTargets == {r \in SingleTargets : r.geoms[1] \in BatchParts}

TargetFiles ==
    {File(<<r>>) : r \in SingleTargets \cup MultiTargets}
        \cup {File(rows) : rows \in SeqsUpTo(BatchTargets, MaxTargets)}
        \cup {Unreadable, File(<< >>)}

Init == InitWith(ZoneFiles, TargetFiles)

\* --- the files of the session's specification ------------------------------
\* Two adjacent zones, a zone that shares its "fid" with one of them, and the
\* malformed zone; target files made of the batch rows.
SessionParts == {<<0, 1>>, <<0, 4>>, <<4, 5>>}

SessionZoneRows ==
    {r \in ZoneRows : Len(r.geoms) = 1 /\ (r.malformed \/ r.geoms[1] \in SessionParts)}

SessionZoneFiles ==
    {File(rows) : rows \in RankedSeqs(SessionZoneRows, MaxZones)} \cup {Unreadable}

SessionTargetFiles ==
    {File(rows) : rows \in SeqsUpTo(BatchTargets, MaxTargets)} \cup {File(<< >>)}

InitSession == InitWith(SessionZoneFiles, SessionTargetFiles)

Next ==
    \/ LoadPolygonsLayer({NoField})
    \/ LoadTargetLayer({NoField})
    \/ AnalyzePoints
    \/ AnalyzeLines
    \/ AnalyzePolygons

Spec == Init /\ [][Next]_vars

\* The session: the analyzer driven through the dialog as well, with the id
\* column either left out or given.
NextSession ==
    \/ LoadPolygonsLayer(IdFields)
    \/ LoadTargetLayer({NoField})
    \/ AnalyzePoints
    \/ AnalyzeLines
    \/ AnalyzePolygons
    \/ PerformAnalysis
    \/ ExportShapefile
    \/ ClearResults

SpecSession == InitSession /\ [][NextSession]_vars

\* --- the files of the dialog's specification -------------------------------
\* The disk holds two zone files, so that a session can load one zone layer
\* after another, and one target file.  Zones: two disjoint zones, the zone
\* between them and the malformed zone of the same box; targets of the three kinds, some of them out
\* of the malformed zone's bounding box.
DialogZoneFiles ==
    {File(rows) : rows \in RankedSeqs({r \in ZoneRows : Len(r.geoms) = 1 /\
                                          r.geoms[1] \in {<<0, 1>>, <<4, 5>>, MalformedBox}},
                                      MaxZones)}

DialogTargetFiles ==
    {File(rows) : rows \in SeqsUpTo({r \in SingleTargets :
                                        \/ r.geom_type = "Point" /\ r.geoms[1] \in {<<0, 0>>, <<1, 1>>}
                                        \/ r.geom_type = "LineString" /\ r.geoms[1] = <<4, 5>>
                                        \/ r.geom_type = "Polygon" /\ r.geoms[1] = <<0, 4>>},
                                    MaxTargets)}

InitDialog ==
    /\ polygons_gdf = None
    /\ target_gdf = None
    /\ spatial_index = None
    /\ ret = NoResults
    /\ analysis_results = NoResults
    /\ processed_results = << >>
    /\ disk \in [zones : {fs \in SUBSET DialogZoneFiles : Cardinality(fs) = 2},
                  targets : {{f} : f \in DialogTargetFiles}]
    /\ ParserIdle

NextDialog ==
    \/ LoadPolygonsLayer({NoField})
    \/ LoadTargetLayer({NoField})
    \/ PerformAnalysis
    \/ ExportShapefile

SpecDialog == InitDialog /\ [][NextDialog]_vars

\* --- the files of the degenerate geometries' specification -----------------
\* Zone files that may hold an empty polygon, in any position; two of them on
\* the disk.  Target files with a line of zero length, polygons of zero area
\* (slivers whose area evaluates to 0.0) and ordinary polygons beside them.
DegenerateZoneFiles ==
    {File(rows) :
        rows \in {q \in SeqsUpTo({ZoneRow("Polygon", <<<<0, 4>>>>, 0, FALSE),
                                   ZoneRow("Polygon", <<<<4, 5>>>>, 4, FALSE),
                                   ZoneRow("Polygon", << >>, 5, FALSE)}, MaxZones) :
                      \A i, j \in DOMAIN q : i # j => q[i] # q[j]}}

DegenerateTargetFiles ==
    {File(rows) :
        rows \in SeqsUpTo({TargetRow("LineString", <<<<1, 1>>>>, 0),
                           TargetRow("Polygon", <<<<1, 1>>>>, 0),
                           TargetRow("Polygon", <<<<4, 5>>>>, 0),
                           TargetRow("MultiPolygon", <<<<4, 5>>, <<1, 1>>>>, 0)}, MaxTargets)}

InitDegenerate ==
    /\ polygons_gdf = None
    /\ target_gdf = None
    /\ spatial_index = None
    /\ ret = NoResults
    /\ analysis_results = NoResults
    /\ processed_results = << >>
    /\ disk \in [zones : {fs \in SUBSET DegenerateZoneFiles : Cardinality(fs) = 2},
                  targets : {{f} : f \in DegenerateTargetFiles}]
    /\ ParserIdle

NextDegenerate ==
    \/ LoadPolygonsLayer({NoField})
    \/ LoadTargetLayer({NoField})
    \/ AnalyzeLines
    \/ AnalyzePolygons

SpecDegenerate == InitDegenerate /\ [][NextDegenerate]_vars

\* ------------------------------------------------------------------------
\* GeometryUtils (src/utils/geometry_utils.py): the best-fit helpers
\* ------------------------------------------------------------------------
\* A polygon argument is a zone row; an exception raised by shapely on a
\* malformed one is caught by the ratio functions, which then return 0.0.
calculate_line_polygon_intersection_ratio(line, polygon) ==
    IF polygon.malformed THEN Zero
    ELSE IF IntersectionIsEmpty(line, polygon.geoms) THEN Zero
    ELSE IF IntersectionMeasure(line, polygon.geoms) > 0
    THEN Frac(IntersectionMeasure(line, polygon.geoms), Measure(line))
    ELSE IF ContainsLine(polygon.geoms, line) THEN One
    ELSE Frac(1, 100)

calculate_polygon_overlap_ratio(polygon1, polygon2) ==
    IF polygon2.malformed THEN Zero
    ELSE IF IntersectionIsEmpty(polygon1, polygon2.geoms) THEN Zero
    ELSE IF Measure(polygon1) > 0
    THEN Frac(IntersectionMeasure(polygon1, polygon2.geoms), Measure(polygon1))
    ELSE Zero

\* as BestFitLoop, but a candidate replaces the best one when its ratio is
\* not below the best ratio
RECURSIVE BestFitLoopNotStrict(_, _, _, _)
BestFitLoopNotStrict(geometry, candidate_polygons, polygon_ids, best) ==
    IF candidate_polygons = << >> THEN best
    ELSE LET ratio == IF geometry.geom_type = "LineString"
                      THEN calculate_line_polygon_intersection_ratio(
                               geometry.part, Head(candidate_polygons))
                      ELSE calculate_polygon_overlap_ratio(
                               geometry.part, Head(candidate_polygons))
         IN BestFitLoopNotStrict(geometry, Tail(candidate_polygons), Tail(polygon_ids),
                IF FLe(best.best_ratio, ratio)
                THEN [best_match |-> <<Head(polygon_ids)>>, best_ratio |-> ratio]
                ELSE best)

\* "for i, polygon in enumerate(candidate_polygons)" for a line and for a
\* polygon: best_match_id and best_ratio
RECURSIVE BestFitLoop(_, _, _, _)
BestFitLoop(geometry, candidate_polygons, polygon_ids, best) ==
    IF candidate_polygons = << >> THEN best
    ELSE LET ratio == IF geometry.geom_type = "LineString"
                      THEN calculate_line_polygon_intersection_ratio(
                               geometry.part, Head(candidate_polygons))
                      ELSE calculate_polygon_overlap_ratio(
                               geometry.part, Head(candidate_polygons))
         IN BestFitLoop(geometry, Tail(candidate_polygons), Tail(polygon_ids),
                IF FGt(ratio, best.best_ratio)
                THEN [best_match |-> <<Head(polygon_ids)>>, best_ratio |-> ratio]
                ELSE best)

\* The pair returned, as best_match (None or <<id>>) and best_ratio.  A point
\* takes the first candidate that contains or touches it, with score 1.0; the
\* candidates of a point are taken to be well formed (contains and touches are
\* called outside any try block).
find_best_fit_polygon(geometry, candidate_polygons, polygon_ids) ==
    IF candidate_polygons = << >> THEN NoBest
    ELSE IF geometry.geom_type = "Point"
    THEN LET hits == {i \in DOMAIN candidate_polygons :
                         \/ ContainsPoint(candidate_polygons[i].geoms, geometry.part)
                         \/ TouchesPoint(candidate_polygons[i].geoms, geometry.part)}
         IN IF hits = {} THEN NoBest
            ELSE [best_match |-> <<polygon_ids[CHOOSE i \in hits : \A j \in hits : i <= j]>>,
                  best_ratio |-> One]
    ELSE IF geometry.geom_type \in {"LineString", "Polygon"}
    THEN BestFitLoop(geometry, candidate_polygons, polygon_ids, NoBest)
    ELSE NoBest

\* find_best_fit_polygon for one single-part target of the loaded layer, with
\* the candidates the index returns for it, in the order it returns them
FindBestFitPolygon ==
    /\ polygons_gdf # None
    /\ target_gdf # None
    /\ \E k \in DOMAIN target_gdf :
          LET row == target_gdf[k]
              cands == possible_matches(spatial_index, row.geoms[1])
          IN /\ Len(row.geoms) = 1
             /\ ret' = [op |-> "find_best_fit_polygon", success |-> TRUE, target |-> k,
                        best |-> find_best_fit_polygon(
                                     [geom_type |-> row.geom_type, part |-> row.geoms[1]],
                                     [i \in DOMAIN cands |-> iloc(polygons_gdf, cands[i])],
                                     [i \in DOMAIN cands |->
                                         iloc(polygons_gdf, cands[i]).analysis_id])]
    /\ UNCHANGED <<polygons_gdf, target_gdf, spatial_index, analysis_results,
                   processed_results, disk>>
    /\ UNCHANGED parser_vars

\* --- the files of the best-fit specification -------------------------------
\* Well-formed zones, among them adjacent ones; single-part targets: points,
\* lines (of zero length too, inside a zone and on a zone's edge) and polygons.
BestFitZoneFiles ==
    {File(rows) : rows \in RankedSeqs({r \in ZoneRows : ~r.malformed /\ Len(r.geoms) = 1 /\
                                          r.geoms[1] \in {<<0, 1>>, <<0, 4>>, <<1, 4>>, <<4, 5>>}},
                                      MaxZones)}

BestFitTargetFiles ==
    {File(rows) :
        rows \in SeqsUpTo({r \in SingleTargets :
                              \/ r.geom_type = "Point" /\ r.geoms[1] \in {<<1, 1>>, <<2, 2>>}
                              \/ r.geom_type = "LineString" /\
                                     r.geoms[1] \in {<<0, 1>>, <<1, 4>>, <<0, 5>>, <<1, 1>>, <<4, 4>>}
                              \/ r.geom_type = "Polygon" /\ r.geoms[1] \in {<<0, 1>>, <<1, 5>>}},
                          MaxTargets)}

InitBestFit == InitWith(BestFitZoneFiles, BestFitTargetFiles)

NextBestFit ==
    \/ LoadPolygonsLayer({NoField})
    \/ LoadTargetLayer({NoField})
    \/ AnalyzeLines
    \/ AnalyzePolygons
    \/ FindBestFitPolygon

SpecBestFit == InitBestFit /\ [][NextBestFit]_vars

\* ------------------------------------------------------------------------
\* CoordinateParser (src/core/coordinate_parser.py)
\*
\* Numbers.  A float is modelled by an integer: the coordinates of the point
\* lists count units of 1e-11, so that 1e-10 is 10 units.
\* Text.  A payload is modelled by the sequence of the items written between
\* its outer brackets and by the form of what surrounds them; json.loads and
\* the regular expression are each evaluated on that text.
\* ------------------------------------------------------------------------
MaxPairs == 3      \* items of a payload
MaxPoints == 4     \* points of a point list
MaxRows == 3       \* rows of a column

\* 1e-10, in units of 1e-11
Epsilon == 10

Abs(x) == IF x < 0 THEN -x ELSE x

\* what a call gives back: a value, or an exception with its message
Return(value) == [ok |-> TRUE, value |-> value]
Raise(error, msg) == [ok |-> FALSE, error |-> error, msg |-> msg]

\* --- payloads -------------------------------------------------------------
\* The items of a payload, by the text they stand for (x, y, z numbers):
\*   pair     [x, y]          strings  ["x", "y"]      long   [x, y, z]
\*   short    [x]             word     ["a", y]        null   [null, y]
\*   dash     [-, y]          object   {"x": y}
Item(kind, p) == [kind |-> kind, p |-> p]

PayloadPoints == {<<0, 0>>, <<0, 5>>, <<10, 0>>}

Items ==
    {Item("pair", p) : p \in PayloadPoints}
        \cup {Item(k, <<10, 0>>) :
                 k \in {"strings", "long", "short", "word", "null", "dash", "object"}}

\* The forms of a text payload:
\*   array    [item, item, ...]                    quoted  "[item, item, ...]"
\*   object   {"coordinates": [item, ...]}         loose   item; item; ...
\*   scalar   a number written out, such as 5      empty   the empty string
Text(form, items) == [text |-> TRUE, form |-> form, items |-> items]
EmptyString == Text("empty", << >>)
Scalar == Text("scalar", << >>)

\* a value that is not a str: None (or NaN)
NoneCell == [text |-> FALSE, value |-> "None"]

\* the payloads: text of each form, and the values that are no text (None,
\* a number)
Payloads ==
    {Text(form, items) : form \in {"array", "quoted", "object", "loose"},
                         items \in {<< >>} \cup SeqsUpTo(Items, MaxPairs)}
        \cup {EmptyString, Scalar, NoneCell, [text |-> FALSE, value |-> "number"]}

\* json.loads(coord_str): the type of the decoded value, or JSONDecodeError.
\* A dash is no JSON number; a quoted payload is a JSON string only if no
\* quote is written inside it (the items strings, word and object hold one).
JsonLoads(payload) ==
    CASE payload.form = "loose" -> "JSONDecodeError"
      [] payload.form = "scalar" -> "number"
      [] payload.form = "array" ->
            IF \E i \in DOMAIN payload.items : payload.items[i].kind = "dash"
            THEN "JSONDecodeError" ELSE "list"
      [] payload.form = "object" ->
            IF \E i \in DOMAIN payload.items : payload.items[i].kind = "dash"
            THEN "JSONDecodeError" ELSE "dict"
      [] payload.form = "quoted" ->
            IF \E i \in DOMAIN payload.items :
                  payload.items[i].kind \in {"strings", "word", "object"}
            THEN "JSONDecodeError" ELSE "str"

\* (float(point[0]), float(point[1])) for one element of the decoded list
FloatPair(item) ==
    CASE item.kind \in {"pair", "strings", "long"} -> Return(item.p)
      [] item.kind = "short" -> Raise("IndexError", "list index out of range")
      [] item.kind = "word" -> Raise("ValueError", "could not convert string to float")
      [] item.kind = "null" -> Raise("TypeError", "float() argument")
      [] item.kind = "object" -> Raise("KeyError", "0")

\* the list comprehension over the decoded list: the pairs, or the exception
\* of the first element that has none
RECURSIVE Comprehension(_, _)
Comprehension(items, acc) ==
    IF items = << >> THEN Return(acc)
    ELSE IF FloatPair(Head(items)).ok
         THEN Comprehension(Tail(items), Append(acc, FloatPair(Head(items)).value))
         ELSE FloatPair(Head(items))

\* self.coordinate_pattern.findall(coord_str): the items the pattern matches,
\* in the order of the text
Findall(payload) == SelectSeq(payload.items, LAMBDA item : item.kind \in {"pair", "dash"})

\* the except branch: [(float(x), float(y)) for x, y in matches], where
\* float('-') raises, or the final raise when there is no match
RegexFallback(payload) ==
    LET matches == Findall(payload) IN
    IF matches = << >> THEN Raise("ValueError", "cannot parse")
    ELSE IF \E i \in DOMAIN matches : matches[i].kind = "dash"
    THEN Raise("ValueError", "could not convert string to float")
    ELSE Return([i \in DOMAIN matches |-> matches[i].p])

\* the exceptions the except clause names
Caught(error) == error \in {"JSONDecodeError", "ValueError", "IndexError", "TypeError"}

parse_coordinate_string(payload) ==
    IF ~payload.text \/ payload.form = "empty"
    THEN Raise("ValueError", "empty")
    ELSE IF JsonLoads(payload) = "JSONDecodeError"
    THEN RegexFallback(payload)
    ELSE IF JsonLoads(payload) = "list"
    THEN LET pairs == Comprehension(payload.items, << >>) IN
         IF pairs.ok THEN pairs
         ELSE IF Caught(pairs.error) THEN RegexFallback(payload)
         ELSE pairs
    ELSE Raise("ValueError", "cannot parse")

\* --- point lists ------------------------------------------------------------
\* On each axis two points are equal, 0.5e-10 apart or exactly 1e-10 apart.
Points == {<<0, 0>>, <<0, 5>>, <<0, 10>>, <<10, 0>>, <<5, 5>>}

First(coords) == coords[1]
Last(coords) == coords[Len(coords)]

\* as RingClosed, but only the first axis is compared
RingClosedFirstAxis(coords) ==
    Abs(First(coords)[1] - Last(coords)[1]) < Epsilon

\* abs(first[0] - last[0]) < 1e-10 and abs(first[1] - last[1]) < 1e-10
RingClosed(coords) ==
    /\ Abs(First(coords)[1] - Last(coords)[1]) < Epsilon
    /\ Abs(First(coords)[2] - Last(coords)[2]) < Epsilon

detect_geometry_type(coords) ==
    IF coords = << >> THEN "Unknown"
    ELSE IF Len(coords) = 1 THEN "Point"
    ELSE IF Len(coords) = 2 THEN "LineString"
    ELSE IF RingClosed(coords) THEN "Polygon"
    ELSE "LineString"

\* --- shapely ----------------------------------------------------------------
\* The constructors differ between the releases of Builds on a ring of three
\* coordinates whose last is the first.

Geometry(geom_type, coords) == [geom_type |-> geom_type, coords |-> coords]

\* Point(coords[0])
ShapelyPoint(p) == Return(Geometry("Point", <<p>>))

\* LineString(coords)
ShapelyLineString(coords) ==
    IF Len(coords) < 2
    THEN Raise("ValueError", "LineStrings must have at least 2 coordinate tuples")
    ELSE Return(Geometry("LineString", coords))

\* Polygon(coords): the shell becomes a linear ring.  The constructor appends
\* the first coordinate when the last is not exactly equal to it; 1.x does so
\* for every shell of three coordinates as well, 2.x refuses a ring of fewer
\* than four coordinates.
ShapelyPolygon(coords, build) ==
    LET exact == First(coords) = Last(coords)
    IN  IF build = "shapely1"
        THEN IF Len(coords) = 3 \/ ~exact
             THEN Return(Geometry("Polygon", Append(coords, First(coords))))
             ELSE Return(Geometry("Polygon", coords))
        ELSE IF ~exact
             THEN Return(Geometry("Polygon", Append(coords, First(coords))))
             ELSE IF Len(coords) < 4
                  THEN Raise("ValueError", "A linearring requires at least 4 coordinates")
                  ELSE Return(Geometry("Polygon", coords))

\* --- create_geometry --------------------------------------------------------
\* as ResolveType, but "auto" is taken for a line without looking at the points
ResolveTypeAutoLine(coords, geometry_type) ==
    IF geometry_type = "auto" THEN "LineString" ELSE geometry_type

\* if geometry_type == "auto": geometry_type = self.detect_geometry_type(coords)
ResolveType(coords, geometry_type) ==
    IF geometry_type = "auto" THEN detect_geometry_type(coords) ELSE geometry_type

\* as PointCountWrong, but only the empty list is refused
PointCountWrongNone(coords) == Len(coords) < 1

\* if len(coords) != 1
PointCountWrong(coords) == Len(coords) # 1

\* abs(first[0] - last[0]) >= 1e-10 or abs(first[1] - last[1]) >= 1e-10
RingOpen(coords) ==
    \/ Abs(First(coords)[1] - Last(coords)[1]) >= Epsilon
    \/ Abs(First(coords)[2] - Last(coords)[2]) >= Epsilon

\* as ClosedCoords, but the first point is appended to every ring
ClosedCoordsAlways(coords) == Append(coords, First(coords))

\* the list given to Polygon(): coords + [coords[0]] when the ring is open.
\* The sum is a new list; the caller's list is not touched.
ClosedCoords(coords) ==
    IF RingOpen(coords) THEN Append(coords, First(coords)) ELSE coords

create_geometry(coords, geometry_type, build) ==
    IF coords = << >> THEN Raise("ValueError", "empty point list")
    ELSE LET type == ResolveType(coords, geometry_type) IN
         CASE type = "Point" ->
                 IF PointCountWrong(coords)
                 THEN Raise("ValueError", "Point needs one point")
                 ELSE ShapelyPoint(First(coords))
           [] type = "LineString" ->
                 IF Len(coords) < 2
                 THEN Raise("ValueError", "LineString needs two points")
                 ELSE ShapelyLineString(coords)
           [] type = "Polygon" ->
                 IF Len(coords) < 3
                 THEN Raise("ValueError", "Polygon needs three points")
                 ELSE ShapelyPolygon(ClosedCoords(coords), build)
           [] OTHER -> Raise("ValueError", "unsupported type")

\* coords = parser.parse_coordinate_string(test_str), then
\* geometry = parser.create_geometry(coords): a failed parse ends the test case
ParseThenCreate(payload, geometry_type, build) ==
    LET coords == parse_coordinate_string(payload)
    IN  IF coords.ok THEN create_geometry(coords.value, geometry_type, build) ELSE coords

\* --- column scans -----------------------------------------------------------
\* geometries.append(None)
Null == [geom_type |-> "None", coords |-> << >>]

\* the cells of a coordinate column: None (or NaN), a number, the empty
\* string, a point, a line, a ring of three pairs ending at its first pair,
\* and text without any pair
Cells ==
    {NoneCell, [text |-> FALSE, value |-> "number"], EmptyString,
     Text("array", <<Item("pair", <<0, 0>>)>>),
     Text("array", <<Item("pair", <<0, 0>>), Item("pair", <<10, 0>>)>>),
     Text("array", <<Item("pair", <<0, 0>>), Item("pair", <<10, 0>>), Item("pair", <<0, 0>>)>>),
     Text("loose", << >>)}

\* str(coord_str): the text of a number is that number written out
Str(cell) == IF cell.text THEN cell ELSE Scalar

\* the body of the loop of parse_dataframe_column for one row: the entry
\* appended to geometries and the increment of failed_count
ColumnRow(coord_str, geometry_type, build) ==
    IF coord_str = NoneCell \/ coord_str = EmptyString
    THEN [geometry |-> Null, failed |-> 0]
    ELSE LET geometry == ParseThenCreate(Str(coord_str), geometry_type, build)
         IN  IF geometry.ok
             THEN [geometry |-> geometry.value, failed |-> 0]
             ELSE [geometry |-> Null, failed |-> 1]

RECURSIVE ColumnLoop(_, _, _, _, _)
ColumnLoop(rows, geometry_type, build, geometries, failed_count) ==
    IF rows = << >> THEN [geometries |-> geometries, failed_count |-> failed_count]
    ELSE LET row == ColumnRow(Head(rows), geometry_type, build)
         IN  ColumnLoop(Tail(rows), geometry_type, build,
                        Append(geometries, row.geometry), failed_count + row.failed)

\* What the call gives back (out) and the number it prints at its end
\* (printed, 0 when nothing is printed).  The value returned is the list
\* 'geometries' alone; failed_count is a local that is printed.  The list is
\* modelled as a record with the one field geometries, so that the fields a
\* caller receives can be asked for.
parse_dataframe_column(df, geometry_type, build) ==
    IF ~df.present
    THEN [out |-> Raise("ValueError", "no such column"), printed |-> 0]
    ELSE LET scan == ColumnLoop(df.rows, geometry_type, build, << >>, 0)
         IN  [out |-> Return([geometries |-> scan.geometries]), printed |-> scan.failed_count]

\* the rows of a longitude and a latitude column, in whole degrees; a cell is
\* None, a word or a number
Degrees(kind, value) == [kind |-> kind, value |-> value]

SeparateRows ==
    {[lng |-> Degrees("None", 0), lat |-> Degrees("number", 0)],
     [lng |-> Degrees("number", 0), lat |-> Degrees("None", 0)],
     [lng |-> Degrees("number", 0), lat |-> Degrees("number", 0)],
     [lng |-> Degrees("number", -180), lat |-> Degrees("number", 90)],
     [lng |-> Degrees("number", 181), lat |-> Degrees("number", 0)],
     [lng |-> Degrees("number", 0), lat |-> Degrees("number", -91)],
     [lng |-> Degrees("word", 0), lat |-> Degrees("number", 0)]}

\* as SeparateRow, without the two range tests
SeparateRowNoRange(row, geometry_type, build) ==
    IF row.lng.kind = "None" \/ row.lat.kind = "None"
    THEN [geometry |-> Null, failed |-> 0]
    ELSE IF row.lng.kind = "word" \/ row.lat.kind = "word"
    THEN [geometry |-> Null, failed |-> 1]
    ELSE IF geometry_type = "Point"
    THEN [geometry |-> Geometry("Point", <<(<<row.lng.value, row.lat.value>>)>>), failed |-> 0]
    ELSE LET geometry == create_geometry(<<(<<row.lng.value, row.lat.value>>)>>, geometry_type, build)
         IN  IF geometry.ok
             THEN [geometry |-> geometry.value, failed |-> 0]
             ELSE [geometry |-> Null, failed |-> 1]

\* the body of the loop of parse_separate_coordinates for one row
SeparateRow(row, geometry_type, build) ==
    IF row.lng.kind = "None" \/ row.lat.kind = "None"
    THEN [geometry |-> Null, failed |-> 0]
    ELSE IF row.lng.kind = "word" \/ row.lat.kind = "word"
    THEN [geometry |-> Null, failed |-> 1]
    ELSE IF ~(-180 <= row.lng.value /\ row.lng.value <= 180)
    THEN [geometry |-> Null, failed |-> 0]
    ELSE IF ~(-90 <= row.lat.value /\ row.lat.value <= 90)
    THEN [geometry |-> Null, failed |-> 0]
    ELSE IF geometry_type = "Point"
    THEN [geometry |-> Geometry("Point", <<(<<row.lng.value, row.lat.value>>)>>), failed |-> 0]
    ELSE LET geometry == create_geometry(<<(<<row.lng.value, row.lat.value>>)>>, geometry_type, build)
         IN  IF geometry.ok
             THEN [geometry |-> geometry.value, failed |-> 0]
             ELSE [geometry |-> Null, failed |-> 1]

RECURSIVE SeparateLoop(_, _, _, _, _)
SeparateLoop(rows, geometry_type, build, geometries, failed_count) ==
    IF rows = << >> THEN [geometries |-> geometries, failed_count |-> failed_count]
    ELSE LET row == SeparateRow(Head(rows), geometry_type, build)
         IN  SeparateLoop(Tail(rows), geometry_type, build,
                          Append(geometries, row.geometry), failed_count + row.failed)

\* as parse_dataframe_column: the list alone is returned, the count printed
parse_separate_coordinates(df, geometry_type, build) ==
    IF ~df.present
    THEN [out |-> Raise("ValueError", "no such column"), printed |-> 0]
    ELSE LET scan == SeparateLoop(df.rows, geometry_type, build, << >>, 0)
         IN  [out |-> Return([geometries |-> scan.geometries]), printed |-> scan.failed_count]

\* --- validate_coordinates ---------------------------------------------------
\* The messages for the points from the i-th on (coordinates in degrees): one
\* for a longitude out of [-180, 180], one for a latitude out of [-90, 90].
\* The points are pairs of numbers, so the isinstance test never fires.
RECURSIVE RangeErrors(_, _)
RangeErrors(coords, i) ==
    IF i > Len(coords) THEN << >>
    ELSE (IF ~(-180 <= coords[i][1] /\ coords[i][1] <= 180)
          THEN <<[error |-> "longitude", point |-> i]>> ELSE << >>)
         \o (IF ~(-90 <= coords[i][2] /\ coords[i][2] <= 90)
             THEN <<[error |-> "latitude", point |-> i]>> ELSE << >>)
         \o RangeErrors(coords, i + 1)

\* the list of messages; the empty list means the coordinates passed
validate_coordinates(coords) ==
    IF coords = << >> THEN <<[error |-> "empty", point |-> 0]>>
    ELSE RangeErrors(coords, 1)
         \o (IF Len(coords) > 1 /\ Cardinality(Range(coords)) < Len(coords)
             THEN <<[error |-> "duplicate", point |-> 0]>> ELSE << >>)

\* --- analyze_column_patterns ------------------------------------------------
\* df[column_name].dropna().head(sample_size): the cells that are not None;
\* sample_size (100) is above every column length considered here
SampleData(rows) == SelectSeq(rows, LAMBDA cell : cell # NoneCell)

\* one sample: the number of its coordinates and its type, or an error
Sample(cell) ==
    LET coords == parse_coordinate_string(Str(cell))
    IN  IF coords.ok
        THEN [error |-> 0, count |-> Len(coords.value),
              type |-> detect_geometry_type(coords.value)]
        ELSE [error |-> 1, count |-> 0, type |-> "None"]

\* the keys of geometry_types, in the order of the dict
TypeOrder == <<"Point", "LineString", "Polygon", "Unknown">>

\* geometry_types after the loop
TypeCounts(samples) ==
    [type \in Range(TypeOrder) |->
        Cardinality({i \in DOMAIN samples : Sample(samples[i]).type = type})]

\* max(geometry_types.items(), key=lambda x: x[1])[0]: the first key, in the
\* order of the dict, with the largest count
MainType(counts) ==
    IF \A type \in Range(TypeOrder) : counts[type] = 0 THEN "Unknown"
    ELSE LET first == CHOOSE i \in DOMAIN TypeOrder :
                         /\ \A j \in DOMAIN TypeOrder : counts[TypeOrder[j]] <= counts[TypeOrder[i]]
                         /\ \A j \in 1..(i - 1) : counts[TypeOrder[j]] < counts[TypeOrder[i]]
         IN  TypeOrder[first]

RECURSIVE SumCounts(_, _)
SumCounts(samples, i) ==
    IF i > Len(samples) THEN 0
    ELSE (IF Sample(samples[i]).error = 0 THEN Sample(samples[i]).count ELSE 0)
            + SumCounts(samples, i + 1)

\* the result dict; a quotient is kept as <<numerator, denominator>>
analyze_column_patterns(df) ==
    IF ~df.present THEN Raise("ValueError", "no such column")
    ELSE LET samples == SampleData(df.rows)
             parsed == {i \in DOMAIN samples : Sample(samples[i]).error = 0}
             error_count == Len(samples) - Cardinality(parsed)
             counts == {Sample(samples[i]).count : i \in parsed}
         IN  Return([total_samples |-> Len(samples),
                     error_count |-> error_count,
                     geometry_types |-> TypeCounts(samples),
                     main_geometry_type |-> MainType(TypeCounts(samples)),
                     coordinate_stats |->
                         IF parsed # {}
                         THEN [average |-> <<SumCounts(samples, 1), Cardinality(parsed)>>,
                               minimum |-> CHOOSE c \in counts : \A d \in counts : c <= d,
                               maximum |-> CHOOSE c \in counts : \A d \in counts : d <= c]
                         ELSE [average |-> <<0, 1>>, minimum |-> 0, maximum |-> 0],
                     success_rate |->
                         IF Len(samples) > 0
                         THEN <<Len(samples) - error_count, Len(samples)>>
                         ELSE <<0, 1>>])

\* --- the parser's operations as steps ---------------------------------------
\* a frame with the column named in the call, or without it
Frames(RowSet) ==
    {[present |-> TRUE, rows |-> rows] : rows \in {<< >>} \cup SeqsUpTo(RowSet, MaxRows)}
        \cup {[present |-> FALSE, rows |-> << >>]}

\* what a caller holds before it calls the parser: a string, a point list
\* with a type name, a frame with a coordinate column, or a frame with a
\* longitude and a latitude column
ParserInputs ==
    {[kind |-> "coord_str", coord_str |-> payload] : payload \in Payloads}
        \cup {[kind |-> "coords", coords |-> coords, geometry_type |-> geometry_type] :
                 coords \in {<< >>} \cup SeqsUpTo(Points, MaxPoints),
                 geometry_type \in {"auto", "Point", "LineString", "Polygon", "Circle"}}
        \cup {[kind |-> "column", df |-> df, geometry_type |-> geometry_type] :
                 df \in Frames(Cells), geometry_type \in {"auto", "Point"}}
        \cup {[kind |-> "separate", df |-> df, geometry_type |-> geometry_type] :
                 df \in Frames(SeparateRows), geometry_type \in {"Point", "LineString"}}

\* detect_geometry_type only reads its argument: the caller's list is as it was
DetectGeometryType ==
    /\ input.kind = "coords"
    /\ call' = [op |-> "detect_geometry_type"]
    /\ out' = Return(detect_geometry_type(input.coords))
    /\ caller_coords' = input.coords
    /\ stdout' = 0
    /\ UNCHANGED <<input, analyzer_vars>>

ParseCoordinateString ==
    /\ input.kind = "coord_str"
    /\ call' = [op |-> "parse_coordinate_string"]
    /\ out' = parse_coordinate_string(input.coord_str)
    /\ caller_coords' = << >>
    /\ stdout' = 0
    /\ UNCHANGED <<input, analyzer_vars>>

\* the caller's list is the one it passed: create_geometry never assigns
\* through its argument
CreateGeometry ==
    /\ input.kind = "coords"
    /\ call' = [op |-> "create_geometry"]
    /\ \E build \in Builds :
          out' = create_geometry(input.coords, input.geometry_type, build)
    /\ caller_coords' = input.coords
    /\ stdout' = 0
    /\ UNCHANGED <<input, analyzer_vars>>

\* one case of the self-test: parse the string, build with the default "auto"
SelfTest ==
    /\ input.kind = "coord_str"
    /\ call' = [op |-> "self_test"]
    /\ \E build \in Builds :
          out' = ParseThenCreate(input.coord_str, "auto", build)
    /\ caller_coords' = << >>
    /\ stdout' = 0
    /\ UNCHANGED <<input, analyzer_vars>>

ParseDataframeColumn ==
    /\ input.kind = "column"
    /\ \E build \in Builds :
          /\ call' = [op |-> "parse_dataframe_column", build |-> build]
          /\ out' = parse_dataframe_column(input.df, input.geometry_type, build).out
          /\ stdout' = parse_dataframe_column(input.df, input.geometry_type, build).printed
    /\ caller_coords' = << >>
    /\ UNCHANGED <<input, analyzer_vars>>

ParseSeparateCoordinates ==
    /\ input.kind = "separate"
    /\ \E build \in Builds :
          /\ call' = [op |-> "parse_separate_coordinates", build |-> build]
          /\ out' = parse_separate_coordinates(input.df, input.geometry_type, build).out
          /\ stdout' = parse_separate_coordinates(input.df, input.geometry_type, build).printed
    /\ caller_coords' = << >>
    /\ UNCHANGED <<input, analyzer_vars>>

AnalyzeColumnPatterns ==
    /\ input.kind = "column"
    /\ call' = [op |-> "analyze_column_patterns"]
    /\ out' = analyze_column_patterns(input.df)
    /\ caller_coords' = << >>
    /\ stdout' = 0
    /\ UNCHANGED <<input, analyzer_vars>>

\* a new parser, beside an analyzer that is never used
InitParser ==
    /\ polygons_gdf = None
    /\ target_gdf = None
    /\ spatial_index = None
    /\ ret = NoResults
    /\ analysis_results = NoResults
    /\ processed_results = << >>
    /\ disk = [zones |-> {Unreadable}, targets |-> {Unreadable}]
    /\ input \in ParserInputs
    /\ NotCalled

NextParser ==
    \/ ParseCoordinateString
    \/ DetectGeometryType
    \/ CreateGeometry
    \/ SelfTest
    \/ ParseDataframeColumn
    \/ ParseSeparateCoordinates
    \/ AnalyzeColumnPatterns

SpecParser == InitParser /\ [][NextParser]_vars

\* --- the inputs of the coordinate ranges' specification ---------------------
\* Coordinates in whole degrees, in and out of [-180, 180] x [-90, 90].  The
\* strings and the cells hold at most two points, so that no comparison with
\* Epsilon is made and the unit of the numbers does not matter.
DegreePoints == {<<0, 0>>, <<-180, 90>>, <<181, 0>>, <<0, -91>>}

DegreePayloads ==
    {Text("array", [i \in DOMAIN ps |-> Item("pair", ps[i])]) : ps \in SeqsUpTo(DegreePoints, 2)}

\* the cells of a coordinate column: one point each, and one cell of two points
DegreeCells ==
    {Text("array", <<Item("pair", p)>>) : p \in DegreePoints}
        \cup {Text("array", <<Item("pair", <<0, 0>>), Item("pair", <<181, 0>>)>>)}

RangeInputs ==
    {[kind |-> "coord_str", coord_str |-> payload] : payload \in DegreePayloads}
        \cup {[kind |-> "coords", coords |-> coords, geometry_type |-> "auto"] :
                 coords \in {<< >>} \cup SeqsUpTo(DegreePoints, MaxPoints - 1)}
        \cup {[kind |-> "column", df |-> df, geometry_type |-> "auto"] :
                 df \in Frames(DegreeCells)}
        \cup {[kind |-> "separate", df |-> df, geometry_type |-> geometry_type] :
                 df \in Frames(SeparateRows), geometry_type \in {"Point", "LineString"}}

ValidateCoordinates ==
    /\ input.kind = "coords"
    /\ call' = [op |-> "validate_coordinates"]
    /\ out' = Return(validate_coordinates(input.coords))
    /\ caller_coords' = input.coords
    /\ stdout' = 0
    /\ UNCHANGED <<input, analyzer_vars>>

InitRanges ==
    /\ polygons_gdf = None
    /\ target_gdf = None
    /\ spatial_index = None
    /\ ret = NoResults
    /\ analysis_results = NoResults
    /\ processed_results = << >>
    /\ disk = [zones |-> {Unreadable}, targets |-> {Unreadable}]
    /\ input \in RangeInputs
    /\ NotCalled

NextRanges ==
    \/ ParseCoordinateString
    \/ ParseDataframeColumn
    \/ ParseSeparateCoordinates
    \/ ValidateCoordinates

SpecRanges == InitRanges /\ [][NextRanges]_vars

\* ------------------------------------------------------------------------
\* Vocabulary of the properties
\* ------------------------------------------------------------------------
PointsAnalysed == ret.op = "analyze_points_in_polygons" /\ ret.success
LinesAnalysed == ret.op = "analyze_lines_in_polygons" /\ ret.success
PolygonsAnalysed == ret.op = "analyze_polygons_in_polygons" /\ ret.success

PointTargets == FilterTypes(target_gdf, PointTypes)
LineTargets == FilterTypes(target_gdf, LineTypes)
PolygonTargets == FilterTypes(target_gdf, PolygonTypes)

\* the ids of the zones whose id list (column ids_column) names the target
ZonesNaming(statistics, ids_column, target_id) ==
    {statistics[i].polygon_id :
        i \in {j \in DOMAIN statistics : target_id \in Range(statistics[j][ids_column])}}

\* how often the id lists of a table name the target
Occurrences(statistics, ids_column, target_id) ==
    SeqSum([i \in DOMAIN statistics |->
               Cardinality({k \in DOMAIN statistics[i][ids_column] :
                               statistics[i][ids_column][k] = target_id})])

\* the part (x-range) lies in the closed zone / shares a point with it
PartWithin(part, zgeoms) == \E z \in Range(zgeoms) : z[1] <= part[1] /\ part[2] <= z[2]
PartMeets(part, zgeoms) == \E z \in Range(zgeoms) : z[1] <= part[2] /\ part[1] <= z[2]

\* the measure of the part that lies in the zone
SharedMeasure(part, zgeoms) ==
    SeqSum([i \in DOMAIN zgeoms |->
               Max2(0, Min2(part[2], zgeoms[i][2]) - Max2(part[1], zgeoms[i][1]))])

\* the coverage ratio of the line rule: shared length over length, and 1 for
\* a zero-length line that lies strictly inside the zone
CoverageOfLine(line, zgeoms) ==
    IF SharedMeasure(line, zgeoms) > 0
    THEN Frac(SharedMeasure(line, zgeoms), line[2] - line[1])
    ELSE IF \E z \in Range(zgeoms) : z[1] < line[1] /\ line[2] < z[2] THEN One ELSE Zero

\* the coverage ratio of the polygon rule: shared area over area
CoverageOfPolygon(poly, zgeoms) == Frac(SharedMeasure(poly, zgeoms), poly[2] - poly[1])

\* the (zone id, ratio) pairs of a line row: one per sub-line and bounding-box
\* candidate of that sub-line
LineCandidateRatios(row) ==
    {[id |-> iloc(polygons_gdf, c[2]).analysis_id,
      ratio |-> CoverageOfLine(c[1], iloc(polygons_gdf, c[2]).geoms)] :
        c \in {d \in Range(row.geoms) \X (0..(Len(polygons_gdf) - 1)) :
                  d[2] \in Range(possible_matches(spatial_index, d[1]))}}

PolygonCandidateRatios(row) ==
    {[id |-> iloc(polygons_gdf, c[2]).analysis_id,
      ratio |-> CoverageOfPolygon(c[1], iloc(polygons_gdf, c[2]).geoms)] :
        c \in {d \in Range(row.geoms) \X (0..(Len(polygons_gdf) - 1)) :
                  d[2] \in Range(possible_matches(spatial_index, d[1]))}}

\* the largest ratio of a set of (zone id, ratio) pairs, 0 for the empty set
MaxRatio(cs) ==
    IF cs = {} THEN Zero
    ELSE (CHOOSE c \in cs : \A d \in cs : FLe(d.ratio, c.ratio)).ratio

\* The target is in the id list of exactly one zone, a zone that attains the
\* largest ratio m of cs, if m > 0; it is only in the unassigned list if not.
BestRatioRule(cs, statistics, ids_column, unassigned, target_id) ==
    LET m == MaxRatio(cs)
        zs == ZonesNaming(statistics, ids_column, target_id)
    IN IF FGt(m, Zero)
       THEN /\ Cardinality(zs) = 1
            /\ \E c \in cs : c.id \in zs /\ c.ratio = m
            /\ target_id \notin Range(unassigned)
       ELSE /\ zs = {}
            /\ target_id \in Range(unassigned)

\* the line lies in zone i and meets no other zone
InsideOnlyZone(row, i) ==
    /\ \A part \in Range(row.geoms) : PartWithin(part, polygons_gdf[i].geoms)
    /\ \A j \in DOMAIN polygons_gdf \ {i} :
          \A part \in Range(row.geoms) : ~PartMeets(part, polygons_gdf[j].geoms)

\* ------------------------------------------------------------------------
\* C1: a line target goes to the zone with the largest ratio
\* intersection length / line length over all bounding-box candidates and all
\* of its sub-lines, iff that ratio is positive, and is listed as unassigned
\* otherwise; a line inside exactly one zone and disjoint from the others goes
\* to that zone with ratio 1.
\* ------------------------------------------------------------------------
C1_LineBestRatio ==
    LinesAnalysed =>
        \A k \in DOMAIN LineTargets :
            LET row == LineTargets[k] IN
            /\ BestRatioRule(LineCandidateRatios(row), ret.statistics, "line_ids",
                             ret.unassigned_line_ids, row.target_id)
            /\ \A i \in DOMAIN polygons_gdf :
                  (InsideOnlyZone(row, i) /\ \A part \in Range(row.geoms) : part[1] < part[2]) =>
                      /\ ZonesNaming(ret.statistics, "line_ids", row.target_id)
                             = {polygons_gdf[i].analysis_id}
                      /\ BestLineMatch(polygons_gdf, spatial_index, row.geoms).best_ratio = One

\* a two-part line whose second part alone reaches the largest ratio, that
\* ratio being below 1, was assigned; and a line inside one of two zones was
C1_Witness ==
    /\ LinesAnalysed
    /\ Len(polygons_gdf) = 2
    /\ \E k \in DOMAIN LineTargets :
          LET row == LineTargets[k]
              m == MaxRatio(LineCandidateRatios(row))
          IN /\ row.geom_type = "MultiLineString"
             /\ FGt(m, Zero) /\ FGt(One, m)
             /\ \A i \in DOMAIN polygons_gdf :
                   FGt(m, CoverageOfLine(row.geoms[1], polygons_gdf[i].geoms))
             /\ ZonesNaming(ret.statistics, "line_ids", row.target_id) # {}

C1_WitnessInside ==
    /\ LinesAnalysed
    /\ Len(polygons_gdf) = 2
    /\ \E k \in DOMAIN LineTargets : \E i \in DOMAIN polygons_gdf :
          /\ InsideOnlyZone(LineTargets[k], i)
          /\ \A part \in Range(LineTargets[k].geoms) : part[1] < part[2]
          /\ ZonesNaming(ret.statistics, "line_ids", LineTargets[k].target_id)
                 = {polygons_gdf[i].analysis_id}

\* ------------------------------------------------------------------------
\* C2: a polygon target goes to the candidate zone with the largest ratio
\* intersection area / target area (80% beats 20%), and a target whose overlap
\* with every candidate is zero is listed as unassigned.
\* ------------------------------------------------------------------------
C2_PolygonBestRatio ==
    PolygonsAnalysed =>
        \A k \in DOMAIN PolygonTargets :
            BestRatioRule(PolygonCandidateRatios(PolygonTargets[k]), ret.statistics,
                          "target_polygon_ids", ret.unassigned_polygon_ids,
                          PolygonTargets[k].target_id)

\* a polygon with 80% of its area in one zone and 20% in another was assigned
\* to the zone holding 80%
C2_Witness ==
    /\ PolygonsAnalysed
    /\ \E k \in DOMAIN PolygonTargets : \E i, j \in DOMAIN polygons_gdf :
          LET row == PolygonTargets[k] IN
          /\ row.geom_type = "Polygon"
          /\ CoverageOfPolygon(row.geoms[1], polygons_gdf[i].geoms) = Frac(4, 5)
          /\ CoverageOfPolygon(row.geoms[1], polygons_gdf[j].geoms) = Frac(1, 5)
          /\ ZonesNaming(ret.statistics, "target_polygon_ids", row.target_id)
                 = {polygons_gdf[i].analysis_id}

\* a polygon that only shares an edge with its candidates was left unassigned
C2_WitnessUnassigned ==
    /\ PolygonsAnalysed
    /\ \E k \in DOMAIN PolygonTargets :
          /\ PolygonCandidateRatios(PolygonTargets[k]) # {}
          /\ PolygonTargets[k].target_id \in Range(ret.unassigned_polygon_ids)

\* the ids of the loaded zones that hold the point, boundary included
ZonesHolding(pt) ==
    {polygons_gdf[i].analysis_id :
        i \in {j \in DOMAIN polygons_gdf :
                  \E z \in Range(polygons_gdf[j].geoms) : z[1] <= pt[1] /\ pt[1] <= z[2]}}

C4_TieOrderIndependent ==
    /\ LinesAnalysed =>
          \A sidx \in CreateSpatialIndex(polygons_gdf) : \A k \in DOMAIN LineTargets :
              ZonesNaming(analyze_lines_in_polygons(polygons_gdf, target_gdf, sidx).statistics,
                          "line_ids", LineTargets[k].target_id)
                  = ZonesNaming(ret.statistics, "line_ids", LineTargets[k].target_id)
    /\ PolygonsAnalysed =>
          \A sidx \in CreateSpatialIndex(polygons_gdf) : \A k \in DOMAIN PolygonTargets :
              ZonesNaming(analyze_polygons_in_polygons(polygons_gdf, target_gdf, sidx).statistics,
                          "target_polygon_ids", PolygonTargets[k].target_id)
                  = ZonesNaming(ret.statistics, "target_polygon_ids", PolygonTargets[k].target_id)

\* as ZonesHolding, over the well-formed zones only
WellFormedZonesHolding(pt) ==
    {polygons_gdf[i].analysis_id :
        i \in {j \in DOMAIN polygons_gdf :
                  /\ ~polygons_gdf[j].malformed
                  /\ \E z \in Range(polygons_gdf[j].geoms) : z[1] <= pt[1] /\ pt[1] <= z[2]}}

\* ------------------------------------------------------------------------
\* C5: when the geometric evaluation raises for one candidate zone, the
\* candidate counts as no match and the analysis still returns a successful
\* result with the assignments of the other candidates and targets.
\* ------------------------------------------------------------------------
C5_FailureIsolation ==
    /\ (ret.op = "analyze_points_in_polygons" /\ polygons_gdf # None /\ target_gdf # None
            /\ PointTargets # << >>) =>
          /\ ret.success
          /\ \A k \in DOMAIN PointTargets :
                PointTargets[k].geom_type = "Point" =>
                    ZonesNaming(ret.statistics, "point_ids", PointTargets[k].target_id)
                        = WellFormedZonesHolding(PointTargets[k].geoms[1])
    /\ (ret.op = "analyze_lines_in_polygons" /\ polygons_gdf # None /\ target_gdf # None
            /\ LineTargets # << >>) => ret.success
    /\ (ret.op = "analyze_polygons_in_polygons" /\ polygons_gdf # None /\ target_gdf # None
            /\ PolygonTargets # << >>) => ret.success

\* the point is interior to the zone
StrictlyInside(pt, zgeoms) == \E z \in Range(zgeoms) : z[1] < pt[1] /\ pt[1] < z[2]

C10_MultiPointOnce ==
    PointsAnalysed =>
        \A i \in DOMAIN ret.statistics :
            LET row == ret.statistics[i] IN
            /\ \A k \in DOMAIN PointTargets :
                  Cardinality({n \in DOMAIN row.point_ids :
                                  row.point_ids[n] = PointTargets[k].target_id}) <= 1
            /\ row.point_count = Cardinality(Range(row.point_ids))

\* a multi-point target with two different sub-points in one zone was
\* counted once for that zone
C10_Witness ==
    /\ PointsAnalysed
    /\ \E k \in DOMAIN PointTargets : \E i \in DOMAIN polygons_gdf :
          LET row == PointTargets[k] IN
          /\ row.geom_type = "MultiPoint"
          /\ row.geoms[1] # row.geoms[2]
          /\ \A pt \in Range(row.geoms) : StrictlyInside(pt, polygons_gdf[i].geoms)
          /\ \E n \in DOMAIN ret.statistics :
                /\ ret.statistics[n].polygon_id = polygons_gdf[i].analysis_id
                /\ ret.statistics[n].point_count = 1
                /\ ret.statistics[n].point_ids = <<row.target_id>>

\* an analysis of one kind has just succeeded
AnyAnalysed == PointsAnalysed \/ LinesAnalysed \/ PolygonsAnalysed

\* the count column of the analysis that has just run
CountColumn ==
    CASE ret.op = "analyze_points_in_polygons" -> "point_count"
      [] ret.op = "analyze_lines_in_polygons" -> "line_count"
      [] ret.op = "analyze_polygons_in_polygons" -> "target_polygon_count"

RowsOfId(statistics, id) == {i \in DOMAIN statistics : statistics[i].polygon_id = id}

\* some target of the analysed kind lies (partly) in the zone
ReceivesTarget(zgeoms) ==
    CASE ret.op = "analyze_points_in_polygons" ->
            \E k \in DOMAIN PointTargets : \E pt \in Range(PointTargets[k].geoms) :
                PartMeets(pt, zgeoms)
      [] ret.op = "analyze_lines_in_polygons" ->
            \E k \in DOMAIN LineTargets : \E part \in Range(LineTargets[k].geoms) :
                FGt(CoverageOfLine(part, zgeoms), Zero)
      [] ret.op = "analyze_polygons_in_polygons" ->
            \E k \in DOMAIN PolygonTargets : \E part \in Range(PolygonTargets[k].geoms) :
                FGt(CoverageOfPolygon(part, zgeoms), Zero)

\* ------------------------------------------------------------------------
\* C7: the statistics table of each analysis holds every loaded zone exactly
\* once (one row per input zone, also when zone ids repeat), with a count of
\* zero for every zone that received no target.
\* ------------------------------------------------------------------------
C7_OneRowPerZone ==
    AnyAnalysed =>
        /\ Len(ret.statistics) = Len(polygons_gdf)
        /\ \A i \in DOMAIN polygons_gdf :
              /\ Cardinality(RowsOfId(ret.statistics, polygons_gdf[i].analysis_id)) = 1
              /\ ~ReceivesTarget(polygons_gdf[i].geoms) =>
                    \A n \in RowsOfId(ret.statistics, polygons_gdf[i].analysis_id) :
                        ret.statistics[n][CountColumn] = 0

\* the count the analysis of a kind reported for a zone id
ReportedCount(results, kind, column, id) ==
    IF kind \notin DOMAIN results.results THEN 0
    ELSE LET statistics == results.results[kind].statistics
         IN SeqSum([i \in DOMAIN statistics |->
                       IF statistics[i].polygon_id = id THEN statistics[i][column] ELSE 0])

\* a row of a combined table adds up and repeats the analyses' counts
CombinedRowRight(row, id) ==
    /\ row.total_count = row.point_count + row.line_count + row.polygon_count
    /\ row.point_count = ReportedCount(analysis_results, "points", "point_count", id)
    /\ row.line_count = ReportedCount(analysis_results, "lines", "line_count", id)
    /\ row.polygon_count
           = ReportedCount(analysis_results, "polygons", "target_polygon_count", id)

\* an export has just succeeded (the exported results are the dialog's
\* analysis_results until the dialog clears them)
Exported == ret.op = "export_results_to_shapefile" /\ ret.success

\* ------------------------------------------------------------------------
\* C8: in the combined per-zone table of the export and of the dialog,
\* total_count = point_count + line_count + polygon_count, each count being
\* the one that kind's analysis reported for the zone, 0 for a kind that was
\* not analysed.
\* ------------------------------------------------------------------------
C8_TotalIsSum ==
    /\ (Exported /\ analysis_results.success) =>
          /\ Len(ret.table) = Len(polygons_gdf)
          /\ \A i \in DOMAIN ret.table :
                /\ ret.table[i].analysis_id = polygons_gdf[i].analysis_id
                /\ CombinedRowRight(ret.table[i], ret.table[i].analysis_id)
    /\ analysis_results.success =>
          \A i \in DOMAIN processed_results :
              CombinedRowRight(processed_results[i], processed_results[i].polygon_id)

\* a table was exported in which a zone has targets of two kinds, and the
\* dialog's table has a row with targets of two kinds as well
C8_Witness ==
    /\ Exported
    /\ analysis_results.success
    /\ \E i \in DOMAIN ret.table :
          /\ ret.table[i].point_count > 0
          /\ ret.table[i].polygon_count > 0
          /\ ret.table[i].total_count = 2
    /\ \E i \in DOMAIN processed_results :
          /\ processed_results[i].line_count = 0
          /\ processed_results[i].point_count > 0
          /\ processed_results[i].polygon_count > 0

\* the four analysis operations of the analyzer
AnalysisOps ==
    {"analyze_points_in_polygons", "analyze_lines_in_polygons",
     "analyze_polygons_in_polygons", "perform_spatial_analysis"}

C11_WitnessNoZones ==
    /\ polygons_gdf = None
    /\ target_gdf # None
    /\ ret.op \in AnalysisOps
    /\ ret = Failure(ret.op, "layers not loaded")

\* the ids of the targets some zone's id list names
NamedTargets(statistics, ids_column) ==
    UNION {Range(statistics[i][ids_column]) : i \in DOMAIN statistics}

\* Every target is either named by some zone or listed as unassigned, never
\* both, and the counts of the result agree with that.
Partitioned(targets, statistics, ids_column, unassigned, assigned_count, unassigned_count,
            total) ==
    LET ids == {targets[k].target_id : k \in DOMAIN targets} IN
    /\ total = Len(targets)
    /\ assigned_count + unassigned_count = total
    /\ unassigned_count = Len(unassigned)
    /\ NamedTargets(statistics, ids_column) \cup Range(unassigned) = ids
    /\ NamedTargets(statistics, ids_column) \cap Range(unassigned) = {}
    /\ Cardinality(NamedTargets(statistics, ids_column)) = assigned_count
    /\ Cardinality(Range(unassigned)) = unassigned_count

Parsed == call.op = "parse_coordinate_string"

\* a pair of the payload with a wrong arity, a missing element or an element
\* that is no number
Malformed(item) == item.kind \in {"short", "long", "word", "null", "dash", "object"}

HasMalformedPair(payload) ==
    /\ payload.text
    /\ \E i \in DOMAIN payload.items : Malformed(payload.items[i])

\* C13: parse_coordinate_string is all-or-nothing: when a pair of the payload
\* is malformed, the call fails for the whole payload and returns no list of
\* the remaining pairs.
C13_AllOrNothing ==
    (Parsed /\ HasMalformedPair(input.coord_str)) => ~out.ok

\* the payload is the empty string or is no text
EmptyOrNonText(payload) == ~payload.text \/ payload.form = "empty"

\* C14: parse_coordinate_string fails with a parse error (ValueError) when
\* the payload is empty or is not text, and a call that succeeds returns at
\* least one pair, the empty array included.
C14_NeverEmptyResult ==
    Parsed =>
        /\ EmptyOrNonText(input.coord_str) => (~out.ok /\ out.error = "ValueError")
        /\ out.ok => out.value # << >>

\* the structured attempt produced a list of pairs
StructuredPairs(payload) ==
    /\ JsonLoads(payload) = "list"
    /\ Comprehension(payload.items, << >>).ok

\* the bracket-delimited numeric pairs of the raw text, in textual order
ScanPairs(payload) ==
    LET found == SelectSeq(payload.items, LAMBDA item : item.kind = "pair")
    IN  [i \in DOMAIN found |-> found[i].p]

\* C15: when the structured (JSON) attempt gives no list of pairs, whether
\* by a decode error or by a decoded value that is no array of pairs, the
\* call returns the numeric pairs found by scanning the raw text, in textual
\* order, and fails only when the scan finds none.
C15_FallbackWheneverNoPairList ==
    (Parsed /\ ~EmptyOrNonText(input.coord_str) /\ ~StructuredPairs(input.coord_str)) =>
        IF ScanPairs(input.coord_str) # << >>
        THEN out = Return(ScanPairs(input.coord_str))
        ELSE ~out.ok


\* ------------------------------------------------------------------------
\* Properties of CoordinateParser.detect_geometry_type
\* ------------------------------------------------------------------------
Detected == call.op = "detect_geometry_type"

\* the first and the last point differ by less than 1e-10 on both axes
EndsWithinEpsilon(coords) ==
    \A axis \in {1, 2} :
        /\ coords[1][axis] - coords[Len(coords)][axis] < Epsilon
        /\ coords[Len(coords)][axis] - coords[1][axis] < Epsilon

ClassifiedType(coords) ==
    CASE Len(coords) = 0 -> "Unknown"
      [] Len(coords) = 1 -> "Point"
      [] Len(coords) = 2 -> "LineString"
      [] Len(coords) >= 3 /\ EndsWithinEpsilon(coords) -> "Polygon"
      [] Len(coords) >= 3 /\ ~EndsWithinEpsilon(coords) -> "LineString"

\* C16: detect_geometry_type returns Unknown for 0 points, Point for 1,
\* LineString for 2, and for 3 or more points Polygon iff the first and the
\* last point differ by less than 1e-10 on both axes, else LineString; the
\* result depends on the point list only, and the list is not modified.
C16_DetectRule ==
    Detected =>
        /\ out = Return(ClassifiedType(input.coords))
        /\ caller_coords = input.coords

\* three or more points whose ends are apart by less than 1e-10 on one axis
\* and by exactly 1e-10 on the other are a LineString
C16_Witness ==
    /\ Detected
    /\ Len(input.coords) >= 3
    /\ input.coords[1][1] = input.coords[Len(input.coords)][1]
    /\ input.coords[1][2] - input.coords[Len(input.coords)][2] = Epsilon
    /\ out = Return("LineString")

\* ends that differ, but by less than 1e-10 on both axes, are a Polygon
C16_WitnessNearlyClosed ==
    /\ Detected
    /\ Len(input.coords) >= 3
    /\ input.coords[1] # input.coords[Len(input.coords)]
    /\ out = Return("Polygon")


\* ------------------------------------------------------------------------
\* Properties of CoordinateParser.create_geometry
\* ------------------------------------------------------------------------
Created == call.op = "create_geometry"

\* the type a request stands for: "auto" stands for the classified type
RequestedType(coords, geometry_type) ==
    IF geometry_type = "auto" THEN ClassifiedType(coords) ELSE geometry_type

\* the point count contradicts the requested type; the empty list and an
\* unsupported type name are counted in
CountContradictsType(coords, geometry_type) ==
    LET type == RequestedType(coords, geometry_type) IN
    \/ Len(coords) = 0
    \/ type \notin {"Point", "LineString", "Polygon"}
    \/ type = "Point" /\ Len(coords) # 1
    \/ type = "LineString" /\ Len(coords) < 2
    \/ type = "Polygon" /\ Len(coords) < 3

\* a Polygon is asked for three points of which the last is exactly the first
ThreePointRing(coords, geometry_type) ==
    /\ Len(coords) = 3
    /\ coords[1] = coords[3]
    /\ RequestedType(coords, geometry_type) = "Polygon"

C17_Witness ==
    /\ Created
    /\ input.geometry_type = "Point"
    /\ Len(input.coords) = 2
    /\ out = Raise("ValueError", "Point needs one point")

C17_WitnessRingBuilt ==
    /\ Created
    /\ ThreePointRing(input.coords, input.geometry_type)
    /\ out.ok


\* create_geometry returned a polygon
PolygonCreated ==
    /\ Created
    /\ RequestedType(input.coords, input.geometry_type) = "Polygon"
    /\ out.ok

\* C18 (as stated): for type Polygon the ring of the returned polygon is the
\* caller's point list when that list is closed within 1e-10 on both axes,
\* and the list followed by its first point otherwise; its ends are equal
\* within 1e-10, and the caller's list is not modified.
C18_ClosedOnceIffOpen ==
    PolygonCreated =>
        /\ out.value.coords =
              IF EndsWithinEpsilon(input.coords)
              THEN input.coords
              ELSE Append(input.coords, input.coords[1])
        /\ EndsWithinEpsilon(out.value.coords)
        /\ caller_coords = input.coords

\* the last point of the list is exactly the first, and the list has the
\* four coordinates a ring needs
ExactRing(coords) == Len(coords) >= 4 /\ coords[1] = coords[Len(coords)]

\* C18 (amended): for type Polygon the ring of the returned polygon is the
\* caller's point list when the list already is a ring whose last point is
\* exactly the first, and otherwise the list followed by its first point,
\* once; the ends of the ring are equal, and the caller's list is not
\* modified.
C18_RingExactlyClosed ==
    PolygonCreated =>
        /\ out.value.coords =
              IF ExactRing(input.coords)
              THEN input.coords
              ELSE Append(input.coords, input.coords[1])
        /\ out.value.coords[1] = out.value.coords[Len(out.value.coords)]
        /\ caller_coords = input.coords

\* three open points give a ring of four vertices that ends at the first
C18_Witness ==
    /\ PolygonCreated
    /\ Len(input.coords) = 3
    /\ ~EndsWithinEpsilon(input.coords)
    /\ Len(out.value.coords) = 4
    /\ out.value.coords[4] = input.coords[1]

\* a built ring is rebuilt without a new vertex
C18_WitnessRebuilt ==
    /\ PolygonCreated
    /\ ExactRing(input.coords)
    /\ out.value.coords = input.coords

\* a list closed within 1e-10, but not exactly, gains the first point
C18_WitnessNearlyClosed ==
    /\ PolygonCreated
    /\ EndsWithinEpsilon(input.coords)
    /\ input.coords[1] # input.coords[Len(input.coords)]
    /\ out.value.coords = Append(input.coords, input.coords[1])


\* ------------------------------------------------------------------------
\* Properties of parsing followed by create_geometry
\* ------------------------------------------------------------------------
\* the self-test ran on a payload that parses to a non-empty point list
ParsedAndBuilt ==
    /\ call.op = "self_test"
    /\ parse_coordinate_string(input.coord_str).ok
    /\ parse_coordinate_string(input.coord_str).value # << >>

ParsedCoords == parse_coordinate_string(input.coord_str).value

C19_WitnessPoint ==
    /\ ParsedAndBuilt
    /\ Len(ParsedCoords) = 1
    /\ out = Return(Geometry("Point", ParsedCoords))

\* three pairs that end where they begin are refused
C19_WitnessRingRefused ==
    /\ ParsedAndBuilt
    /\ ThreePointRing(ParsedCoords, "auto")
    /\ ~out.ok


\* ------------------------------------------------------------------------
\* Properties of the column scans
\* ------------------------------------------------------------------------
\* a scan of a frame that has the column ran
Scanned ==
    /\ call.op \in {"parse_dataframe_column", "parse_separate_coordinates"}
    /\ input.df.present

\* the row holds a value, and parsing it, classifying it or building its
\* geometry raises
RowFails(i) ==
    LET row == input.df.rows[i] IN
    IF call.op = "parse_dataframe_column"
    THEN /\ row # NoneCell
         /\ row # EmptyString
         /\ ~ParseThenCreate(Str(row), input.geometry_type, call.build).ok
    ELSE /\ row.lng.kind # "None"
         /\ row.lat.kind # "None"
         /\ \/ row.lng.kind = "word"
            \/ row.lat.kind = "word"
            \/ /\ -180 <= row.lng.value /\ row.lng.value <= 180
               /\ -90 <= row.lat.value /\ row.lat.value <= 90
               /\ input.geometry_type # "Point"
               /\ ~create_geometry(<<(<<row.lng.value, row.lat.value>>)>>,
                                   input.geometry_type, call.build).ok

\* what the scan holds for each row and for its failure counter
ScanIsBestEffort ==
    /\ out.ok
    /\ Len(out.value.geometries) = Len(input.df.rows)
    /\ \A i \in DOMAIN input.df.rows : RowFails(i) => out.value.geometries[i] = Null
    /\ stdout = Cardinality({i \in DOMAIN input.df.rows : RowFails(i)})

\* the fields of the returned value that tell the failures
FailureSignals == {"failed_count", "error_count", "success_rate"}

\* C20: a column scan (parse_dataframe_column, parse_separate_coordinates)
\* never aborts on a bad row: its result has one entry per row, a row whose
\* parse, classification or build fails gives a null entry and adds one to
\* the failure counter, and the caller receives a failure count or a success
\* rate along with the results.
C20_ScanReportsFailures ==
    Scanned =>
        /\ ScanIsBestEffort
        /\ "geometries" \in DOMAIN out.value
        /\ DOMAIN out.value \cap FailureSignals # {}

C24_ReadOnly ==
    [][ret'.op \in AnalysisOps \cup {"export_results_to_shapefile"} =>
          UNCHANGED <<polygons_gdf, spatial_index, target_gdf>>]_vars

\* an export wrote the frame of the loaded zones
C24_Witness ==
    /\ Exported
    /\ spatial_index # None
    /\ target_gdf # None
    /\ \E i \in DOMAIN ret.table : ret.table[i].total_count > 0

\* an analysis failed on a malformed zone, an export failed on its output file
C24_WitnessFailed ==
    /\ ret.op \in AnalysisOps \cup {"export_results_to_shapefile"}
    /\ ret = Failure(ret.op, "exception")
    /\ polygons_gdf # None
    /\ target_gdf # None

\* ------------------------------------------------------------------------
\* C23: statistics do not outlive the zone set they were computed against.
\* After zone set A was loaded and analysed and zone set B was loaded, an
\* export never attaches counts computed against A to the zones of B: the
\* counts of an exported frame are those of an analysis of the zone set the
\* analyzer holds (under some build order of its index) and the loaded
\* targets.
\* ------------------------------------------------------------------------
C23_NoStaleCounts ==
    Exported =>
        \E sidx \in CreateSpatialIndex(polygons_gdf) :
            LET fresh == perform_spatial_analysis(polygons_gdf, target_gdf, sidx)
            IN fresh.success /\ ret.table = ResultGdf(polygons_gdf, fresh)

\* the complete analysis was run on two loaded layers
CompleteAnalysed ==
    /\ ret.op = "perform_spatial_analysis"
    /\ polygons_gdf # None
    /\ target_gdf # None

\* the result of the analysis of one kind on the loaded layers
KindResult(k) ==
    CASE k = "points" -> analyze_points_in_polygons(polygons_gdf, target_gdf, spatial_index)
      [] k = "lines" -> analyze_lines_in_polygons(polygons_gdf, target_gdf, spatial_index)
      [] k = "polygons" -> analyze_polygons_in_polygons(polygons_gdf, target_gdf, spatial_index)

\* the kinds of which the target layer holds a geometry
KindsPresent ==
    {k \in {"points"} : \E r \in Range(target_gdf) : r.geom_type \in PointTypes}
        \cup {k \in {"lines"} : \E r \in Range(target_gdf) : r.geom_type \in LineTypes}
        \cup {k \in {"polygons"} : \E r \in Range(target_gdf) : r.geom_type \in PolygonTypes}

\* ------------------------------------------------------------------------
\* C28: perform_spatial_analysis runs the analysis of a kind (points, lines,
\* polygons) exactly when the target layer holds a geometry of that kind.
\* Its results map holds exactly the kinds whose analysis succeeded, each
\* with that analysis's result; the call succeeds iff at least one kind
\* succeeded; a kind whose analysis failed is absent from a successful
\* result, not reported in it as an error.
\* ------------------------------------------------------------------------
C28_ResultsAreSucceededKinds ==
    CompleteAnalysed =>
        LET succeeded == {k \in KindsPresent : KindResult(k).success} IN
        /\ ret.success <=> succeeded # {}
        /\ ret.success =>
              /\ DOMAIN ret.results = succeeded
              /\ \A k \in succeeded : ret.results[k] = KindResult(k)
              /\ DOMAIN ret \cap {"error", "errors"} = {}

\* one kind failed on the malformed zone and is absent, another succeeded
C28_Witness ==
    /\ CompleteAnalysed
    /\ ret.success
    /\ \E k \in KindsPresent : k \notin DOMAIN ret.results

\* every kind present failed: the call failed
C28_WitnessAllFailed ==
    /\ CompleteAnalysed
    /\ ~ret.success
    /\ KindsPresent # {}

\* the kind of analysis that evaluates a target row, and its id-list column
KindOfRow(row) ==
    CASE row.geom_type \in PointTypes -> "points"
      [] row.geom_type \in LineTypes -> "lines"
      [] row.geom_type \in PolygonTypes -> "polygons"

IdsColumn(k) ==
    CASE k = "points" -> "point_ids"
      [] k = "lines" -> "line_ids"
      [] k = "polygons" -> "target_polygon_ids"

\* the analysis of the row's kind on a target layer that holds the row alone
AloneResult(row) ==
    CASE KindOfRow(row) = "points" ->
             analyze_points_in_polygons(polygons_gdf, <<row>>, spatial_index)
      [] KindOfRow(row) = "lines" ->
             analyze_lines_in_polygons(polygons_gdf, <<row>>, spatial_index)
      [] KindOfRow(row) = "polygons" ->
             analyze_polygons_in_polygons(polygons_gdf, <<row>>, spatial_index)

\* the complete analysis reports for the row the zones its analysis alone reports
SameOutcome(row) ==
    LET k == KindOfRow(row) IN
    /\ ret.success
    /\ k \in DOMAIN ret.results
    /\ ZonesNaming(ret.results[k].statistics, IdsColumn(k), row.target_id)
           = ZonesNaming(AloneResult(row).statistics, IdsColumn(k), row.target_id)

\* Where the analysis of the layer and the analysis of the row alone both
\* succeed they agree on the row: the loops carry nothing from row to row.
SameOutcomeWhenAnalysed ==
    CompleteAnalysed =>
        \A row \in Range(target_gdf) :
            (/\ AloneResult(row).success
             /\ ret.success
             /\ KindOfRow(row) \in DOMAIN ret.results) => SameOutcome(row)

\* ------------------------------------------------------------------------
\* C25: the outcome of a target (the zone or zones it is matched to) depends
\* only on the zone set and on that target.  It is the same whatever other
\* targets the layer holds and in whatever order they are evaluated: what
\* the analysis of the layer reports for a target is what the analysis of
\* that target alone reports.
\* ------------------------------------------------------------------------
C25_TargetsIndependent ==
    CompleteAnalysed =>
        \A row \in Range(target_gdf) : AloneResult(row).success => SameOutcome(row)

\* ------------------------------------------------------------------------
\* C27: the index always matches the zone set.  After any sequence of
\* load_polygons_layer calls, successful or failed, whenever the analyzer
\* holds a zone set its index holds exactly one entry per row of that set,
\* keyed by the row's position; a load that fails part-way leaves no new zone
\* set beside a missing, stale or partial index.
\* ------------------------------------------------------------------------
C27_IndexMatchesZones ==
    polygons_gdf # None =>
        /\ Len(spatial_index) = Len(polygons_gdf)
        /\ \A i \in DOMAIN polygons_gdf :
              Cardinality({k \in DOMAIN spatial_index : spatial_index[k].id = i - 1}) = 1

\* a quotient the analyses report lies in [0, 1]
InUnitInterval(r) == FLe(Zero, r) /\ FLe(r, One)

\* The line analysis completes on every loaded pair of layers that holds a
\* line, zero-length lines included, and reports every line.
LinesComplete ==
    (/\ ret.op = "analyze_lines_in_polygons"
     /\ polygons_gdf # None
     /\ LineTargets # << >>) =>
        /\ ret.success
        /\ Partitioned(LineTargets, ret.statistics, "line_ids", ret.unassigned_line_ids,
                       ret.assigned_lines, ret.unassigned_lines, ret.total_lines)
        /\ \A i \in DOMAIN ret.statistics :
              InUnitInterval(ret.statistics[i].avg_intersection_ratio)

PolygonsComplete ==
    (/\ ret.op = "analyze_polygons_in_polygons"
     /\ polygons_gdf # None
     /\ PolygonTargets # << >>) =>
        /\ ret.success
        /\ Partitioned(PolygonTargets, ret.statistics, "target_polygon_ids",
                       ret.unassigned_polygon_ids, ret.assigned_polygons,
                       ret.unassigned_polygons, ret.total_target_polygons)
        /\ \A i \in DOMAIN ret.statistics :
              InUnitInterval(ret.statistics[i].avg_overlap_ratio)

\* ------------------------------------------------------------------------
\* C30: the ratio computations never divide by zero.  With a degenerate
\* target in the layer (a line of zero length, a polygon of zero area whose
\* bounding box meets a zone) the analyses complete, report that target as
\* unassigned or as assigned with a ratio in [0, 1], and report all the other
\* targets as well.
\* ------------------------------------------------------------------------
C30_DegenerateTargetsHandled == LinesComplete /\ PolygonsComplete

\* the point lies outside [-180, 180] x [-90, 90] (degrees)
OutOfRange(pt) == ~(-180 <= pt[1] /\ pt[1] <= 180) \/ ~(-90 <= pt[2] /\ pt[2] <= 90)

\* the points a payload of pairs writes out
WrittenPoints(payload) == [i \in DOMAIN payload.items |-> payload.items[i].p]

\* parse_coordinate_string and parse_dataframe_column return the numbers as
\* written, in range or not
StringsKeepEveryRange ==
    /\ call.op = "parse_coordinate_string" =>
          /\ out.ok
          /\ out.value = WrittenPoints(input.coord_str)
    /\ (call.op = "parse_dataframe_column" /\ input.df.present) =>
          \A i \in DOMAIN input.df.rows :
              /\ out.value.geometries[i] # Null
              /\ out.value.geometries[i].coords = WrittenPoints(input.df.rows[i])

\* validate_coordinates names every coordinate that is out of range, and
\* nothing else as out of range
ValidateReportsRanges ==
    call.op = "validate_coordinates" =>
        \A i \in DOMAIN input.coords :
            /\ [error |-> "longitude", point |-> i] \in Range(out.value)
                   <=> ~(-180 <= input.coords[i][1] /\ input.coords[i][1] <= 180)
            /\ [error |-> "latitude", point |-> i] \in Range(out.value)
                   <=> ~(-90 <= input.coords[i][2] /\ input.coords[i][2] <= 90)

\* the rows of a longitude/latitude frame that hold two numbers
NumericRows ==
    {i \in DOMAIN input.df.rows :
        input.df.rows[i].lng.kind = "number" /\ input.df.rows[i].lat.kind = "number"}

SeparateScanned == call.op = "parse_separate_coordinates" /\ input.df.present

C26_WitnessKept ==
    \/ /\ call.op = "parse_coordinate_string"
       /\ <<181, 0>> \in Range(out.value)
    \/ /\ call.op = "parse_dataframe_column"
       /\ \E i \in DOMAIN out.value.geometries :
             out.value.geometries[i] = Geometry("Point", <<(<<181, 0>>)>>)

C26_WitnessReported ==
    /\ call.op = "validate_coordinates"
    /\ [error |-> "longitude", point |-> 1] \in Range(out.value)
    /\ [error |-> "latitude", point |-> 2] \in Range(out.value)

\* find_best_fit_polygon was applied to a target of the loaded layer
BestFitFound == ret.op = "find_best_fit_polygon"

\* what the analyzer's loop selects for the target find_best_fit_polygon was
\* applied to, from the same candidates in the same order
AnalyzerRule ==
    IF target_gdf[ret.target].geom_type = "LineString"
    THEN BestLineMatch(polygons_gdf, spatial_index, target_gdf[ret.target].geoms)
    ELSE BestPolygonMatch(polygons_gdf, spatial_index, target_gdf[ret.target].geoms)

\* the line target shares a point with a zone but no stretch of positive
\* length, and no zone contains it
OnlyTouches(line) ==
    /\ \E i \in DOMAIN polygons_gdf : ~IntersectionIsEmpty(line, polygons_gdf[i].geoms)
    /\ \A i \in DOMAIN polygons_gdf :
          /\ IntersectionMeasure(line, polygons_gdf[i].geoms) = 0
          /\ ~ContainsLine(polygons_gdf[i].geoms, line)

\* Away from the lines that only touch, the two rules agree.
BestFitAgreesUnlessTouching ==
    (/\ BestFitFound
     /\ target_gdf[ret.target].geom_type \in {"LineString", "Polygon"}
     /\ ~OnlyTouches(target_gdf[ret.target].geoms[1])) => ret.best = AnalyzerRule

\* ------------------------------------------------------------------------
\* C29: for a single-part line or polygon target and the same ordered list
\* of candidate zones, find_best_fit_polygon returns the zone and the score
\* the analyzer's line or polygon rule selects, and no zone when no candidate
\* overlaps the target over a positive length or area (a line that only
\* touches a zone at a point, for instance).
\* ------------------------------------------------------------------------
C29_BestFitMatchesAnalyzer ==
    (BestFitFound /\ target_gdf[ret.target].geom_type \in {"LineString", "Polygon"}) =>
        ret.best = AnalyzerRule

\* a score: in [0, 1], and positive exactly when a zone goes with it
ScoreOfMatch(best) ==
    /\ InUnitInterval(best.best_ratio)
    /\ best.best_match # None <=> FGt(best.best_ratio, Zero)

\* the averages of a statistics table: in [0, 1], positive for a zone that
\* was assigned a target
AveragesInRange(statistics, count_column, avg_column) ==
    \A i \in DOMAIN statistics :
        /\ InUnitInterval(statistics[i][avg_column])
        /\ statistics[i][count_column] > 0 => FGt(statistics[i][avg_column], Zero)

\* ------------------------------------------------------------------------
\* C22: every assignment carries a score in [0, 1], and a zone is present
\* iff the score is positive.  An assigned line or polygon target has
\* 0 < ratio <= 1, so that every zone's avg_intersection_ratio and
\* avg_overlap_ratio lies in [0, 1]; a target contained in a zone scores
\* exactly 1.0; find_best_fit_polygon returns no zone id exactly when it
\* returns the score 0.0.
\* ------------------------------------------------------------------------
C22_ScoresInRange ==
    /\ BestFitFound =>
          /\ ScoreOfMatch(ret.best)
          /\ ret.best.best_match = None <=> ret.best.best_ratio = Zero
    /\ LinesAnalysed =>
          /\ AveragesInRange(ret.statistics, "line_count", "avg_intersection_ratio")
          /\ \A k \in DOMAIN LineTargets :
                LET best == BestLineMatch(polygons_gdf, spatial_index, LineTargets[k].geoms)
                IN /\ ScoreOfMatch(best)
                   /\ LineTargets[k].target_id \in NamedTargets(ret.statistics, "line_ids")
                          <=> FGt(best.best_ratio, Zero)
                   /\ (\E i \in DOMAIN polygons_gdf :
                          ContainsLine(polygons_gdf[i].geoms, LineTargets[k].geoms[1]))
                          => best.best_ratio = One
    /\ PolygonsAnalysed =>
          /\ AveragesInRange(ret.statistics, "target_polygon_count", "avg_overlap_ratio")
          /\ \A k \in DOMAIN PolygonTargets :
                LET best == BestPolygonMatch(polygons_gdf, spatial_index, PolygonTargets[k].geoms)
                IN /\ ScoreOfMatch(best)
                   /\ PolygonTargets[k].target_id
                          \in NamedTargets(ret.statistics, "target_polygon_ids")
                          <=> FGt(best.best_ratio, Zero)
                   /\ (\E i \in DOMAIN polygons_gdf :
                          PartWithin(PolygonTargets[k].geoms[1], polygons_gdf[i].geoms))
                          => best.best_ratio = One

\* a line analysis gave a zone an average strictly between 0 and 1
C22_Witness ==
    /\ LinesAnalysed
    /\ \E i \in DOMAIN ret.statistics :
          /\ FGt(ret.statistics[i].avg_intersection_ratio, Zero)
          /\ FGt(One, ret.statistics[i].avg_intersection_ratio)

\* find_best_fit_polygon returned no zone with score 0.0 for a line that has
\* candidates, and a zone with a score below 1.0 for another
C22_WitnessNoZone ==
    /\ BestFitFound
    /\ ret.best = NoBest
    /\ possible_matches(spatial_index, target_gdf[ret.target].geoms[1]) # << >>

C22_WitnessContained ==
    /\ PolygonsAnalysed
    /\ \E i \in DOMAIN ret.statistics : ret.statistics[i].avg_overlap_ratio = One

====
